---------------------------- MODULE Spec2Model ----------------------------
(***************************************************************************)
(* Model of the giveaway bot (src/bot.py, src/config.py).                  *)
(*                                                                         *)
(* The store is PostgreSQL used in autocommit mode: every SQL statement is *)
(* its own transaction, and every `await` of a statement is a point where  *)
(* another handler run may be scheduled.  A handler run is therefore       *)
(* modelled as a task that executes one SQL statement per step.            *)
(***************************************************************************)
EXTENDS Integers, Sequences, FiniteSets, TLC

(***************************************************************************)
(* Bounds of the model.                                                    *)
(***************************************************************************)
NumTasks == 2        \* handler runs that may be in progress at the same time
MaxRuns == 3         \* handler runs started in one behaviour
NumUsers == 2        \* distinct external identities that contact the bot
AlphabetSize == 2    \* leading characters of PARTICIPANT_CODE_ALPHABET in use
RGrid == 2           \* the drawn value r is a multiple of 1/RGrid
PART_LEN == 1        \* characters of a participant code (PARTICIPANT_CODE_LEN)

Tasks == 1..NumTasks
UserIds == 1..NumUsers

(***************************************************************************)
(* Text.  A Python str is a sequence of one-character strings.             *)
(***************************************************************************)
UpperChars == <<"A","B","C","D","E","F","G","H","I","J","K","L","M",
                "N","O","P","Q","R","S","T","U","V","W","X","Y","Z">>
LowerChars == <<"a","b","c","d","e","f","g","h","i","j","k","l","m",
                "n","o","p","q","r","s","t","u","v","w","x","y","z">>
Whitespace == {" ", "\t", "\n"}

\* str.lower() on one character
lower_char(c) ==
    IF \E i \in 1..Len(UpperChars) : UpperChars[i] = c
    THEN LowerChars[CHOOSE i \in 1..Len(UpperChars) : UpperChars[i] = c]
    ELSE c

\* str.lower()
lower(s) == [i \in 1..Len(s) |-> lower_char(s[i])]

\* (mutant) leading whitespace is dropped, trailing whitespace is kept
lstrip(s) ==
    LET keep == {i \in 1..Len(s) : s[i] \notin Whitespace}
    IN  IF keep = {} THEN <<>>
        ELSE SubSeq(s, CHOOSE i \in keep : \A j \in keep : i <= j, Len(s))

\* str.strip(): drop leading and trailing whitespace
strip(s) ==
    LET keep == {i \in 1..Len(s) : s[i] \notin Whitespace}
    IN  IF keep = {} THEN <<>>
        ELSE LET lo == CHOOSE i \in keep : \A j \in keep : i <= j
                 hi == CHOOSE i \in keep : \A j \in keep : j <= i
             IN  SubSeq(s, lo, hi)

\* str.startswith("/")
startswith_slash(s) == Len(s) > 0 /\ s[1] = "/"

(***************************************************************************)
(* config.py                                                               *)
(***************************************************************************)
HEADSHOTKING == <<"H","E","A","D","S","H","O","T","K","I","N","G">>
MOOVICTORY == <<"M","O","O","V","I","C","T","O","R","Y">>
CLUTCHGOD == <<"C","L","U","T","C","H","G","O","D">>
VALID_CODES == <<HEADSHOTKING, MOOVICTORY, CLUTCHGOD>>

PARTICIPANT_CODE_ALPHABET ==
    <<"a","b","c","d","e","f","g","h","j","k","m","n","p","q","r","s","t",
      "u","v","w","x","y","z","A","B","C","D","E","F","G","H","J","K","M",
      "N","P","Q","R","S","T","U","V","W","X","Y","Z","2","3","4","5","6",
      "7","8","9">>
ALPHABET == {PARTICIPANT_CODE_ALPHABET[i] : i \in 1..AlphabetSize}

\* every value make_participant_code() can return
make_participant_code == [1..PART_LEN -> ALPHABET]

\* (mutant) a word outside the configuration passes as a valid code
valid_codes_and_nope == {lower(VALID_CODES[i]) : i \in 1..Len(VALID_CODES)} \cup {<<"n","o","p","e">>}

\* the lower-cased valid codes built in handle_code
valid_codes == {lower(VALID_CODES[i]) : i \in 1..Len(VALID_CODES)}

(***************************************************************************)
(* Inputs of the handler runs.                                             *)
(***************************************************************************)
None == "None"
headshotking_lc == lower(HEADSHOTKING)
moovictory_lc == lower(MOOVICTORY)
NOPE == <<"n","o","p","e">>
\* texts submitted by concurrent handler runs
Texts == {HEADSHOTKING, MOOVICTORY}
\* texts submitted by handler runs that follow one another
SeqTexts == {HEADSHOTKING, headshotking_lc, MOOVICTORY, NOPE}

\* (username, first_name) as delivered by the platform; username may be None
Profiles == { [username |-> None,  first_name |-> "Ann"],
              [username |-> "ann", first_name |-> "Anna"] }

\* the profile of the runs that follow one another
SeqProfiles == { [username |-> "ann", first_name |-> "Anna"] }

\* Python's `x or ""`
or_empty(x) == IF x = None THEN "" ELSE x

\* answers of bot.get_chat_member: a status, or an exception
MemberAnswers == {"member", "administrator", "creator", "left", "error"}
ok_status == {"member", "administrator", "creator"}
REQ_CH_USERNAME == "projectglml"

\* (mutant) a failed lookup by id admits the sender
is_subscribed_fail_open(by_username, by_id) ==
    IF REQ_CH_USERNAME # "" /\ by_username \in ok_status THEN TRUE
    ELSE IF by_id = "error" THEN TRUE
    ELSE by_id \in ok_status

\* is_subscribed, given the answers of the lookup by username and by id
is_subscribed(by_username, by_id) ==
    IF REQ_CH_USERNAME # "" /\ by_username \in ok_status THEN TRUE
    ELSE IF by_id = "error" THEN FALSE
    ELSE by_id \in ok_status


(***************************************************************************)
(* State.                                                                  *)
(***************************************************************************)
VARIABLES
    users,            \* table public.users: user_id -> row
    user_prefs,       \* table public.user_prefs: user_id -> row
    entries,          \* table public.entries, rows in insertion order
    entries_id_seq,   \* the bigserial sequence behind entries.id
    task,             \* per handler run in progress: position and local variables
    done,             \* what each ended handler run returned, in order of ending
    draw,             \* the run of draw_weighted_winner: position and local variables
    fsm,              \* the operator's dialogue in the dispatcher's MemoryStorage
    POOL              \* the module's global connection pool

vars == <<users, user_prefs, entries, entries_id_seq, task, done, draw, fsm, POOL>>

NoCode == <<>>
NoProfile == [username |-> None, first_name |-> None]

IdleTask ==
    [at |-> "idle", user_id |-> 0, profile |-> NoProfile, text |-> <<>>,
     subscribed |-> FALSE, participant_code |-> NoCode, max_number |-> 0,
     started |-> 0]

default_prefs ==
    [notify_results |-> TRUE, notify_new_video |-> TRUE, notify_streams |-> TRUE]

NoWinner ==
    [user_id |-> 0, username |-> "", first_name |-> "", participant_code |-> NoCode,
     codes_count |-> 0, codes |-> << >>, tickets |-> 0]

IdleDraw ==
    [at |-> "idle", users |-> << >>, code_rows |-> << >>, r |-> 0,
     returned |-> "pending", fallback |-> FALSE, winner |-> NoWinner]

\* no dialogue: state None and an empty data dictionary (keys without a
\* value hold None); `preview` tells whether the operator's chat holds a
\* preview message, whose buttons send broadcast:confirm and broadcast:cancel
NoDialogue ==
    [state |-> None, data |-> [btype |-> None, text |-> None], preview |-> FALSE]

\* the pool as the startup hook leaves it: constructed once, assigned to the
\* global, opened, no connection handed out.  `module` names the module whose
\* global it is, `ref` the pool the global refers to (0: None), `constructed`
\* counts the pool objects made, `opened` holds the pools that are open,
\* `in_use` counts the connections of the pool that are handed out.
StartedPool ==
    [module |-> "bot.py", ref |-> 1, constructed |-> 1, opened |-> {1},
     in_use |-> 0]

Init ==
    /\ users = << >>
    /\ user_prefs = << >>
    /\ entries = << >>
    /\ entries_id_seq = 0
    /\ task = [t \in Tasks |-> IdleTask]
    /\ done = << >>
    /\ draw = IdleDraw
    /\ fsm = NoDialogue
    /\ POOL = StartedPool

InProgress == {t \in Tasks : task[t].at # "idle"}

(***************************************************************************)
(* The store: constraints of INIT_SQL and the queries the handlers run.    *)
(***************************************************************************)
Rows(es) == {es[i] : i \in 1..Len(es)}

\* users.user_id is the primary key: a second row with the key is refused
users_pkey(us, uid) == uid \in DOMAIN us

\* (mutant) the column is declared without `unique`
users_participant_code_not_unique(us, pcode) == FALSE

\* participant_code text unique not null
users_participant_code_key(us, pcode) ==
    \E u \in DOMAIN us : us[u].participant_code = pcode

\* (mutant) the check of the loop finds no row whatever the code
select_participant_code_none(us, pcode) == {}

\* select 1 from users where participant_code = %s
select_participant_code(us, pcode) ==
    {u \in DOMAIN us : us[u].participant_code = pcode}

\* (mutant) the unique index on (user_id, code) is missing
idx_entries_user_code_missing(es, uid, code) == FALSE

\* create unique index idx_entries_user_code on entries(user_id, code)
idx_entries_user_code(es, uid, code) ==
    \E e \in Rows(es) : e.user_id = uid /\ e.code = code

\* (mutant) the lookup leaves out `and code = %s`
select_entry_number_any_code(es, uid, code) ==
    {e.entry_number : e \in {x \in Rows(es) : x.user_id = uid}}

\* select entry_number from entries where user_id = %s and code = %s
select_entry_number(es, uid, code) ==
    {e.entry_number : e \in {x \in Rows(es) : x.user_id = uid /\ x.code = code}}

\* select coalesce(max(entry_number), 0) from entries
select_max_entry_number(es) ==
    IF es = << >> THEN 0
    ELSE CHOOSE m \in {e.entry_number : e \in Rows(es)} :
             \A e \in Rows(es) : e.entry_number <= m

\* new_number = int(max_number) + 1
new_number(max_number) == max_number + 1

\* (mutant) the update replaces the whole row and drops the code
update_users_whole_row(row, profile) ==
    [username |-> or_empty(profile.username),
     first_name |-> or_empty(profile.first_name),
     participant_code |-> <<>>]

\* update users set username = %s, first_name = %s where user_id = %s
update_users(row, profile) ==
    [row EXCEPT !.username = or_empty(profile.username),
                !.first_name = or_empty(profile.first_name)]

\* count(distinct e.code) of one participant: the lottery weight
codes_count(es, uid) ==
    Cardinality({e.code : e \in {x \in Rows(es) : x.user_id = uid}})

\* (mutant) the text is stripped and not lower-cased
code_lc_as_typed(text) == strip(text)

\* the code handle_code registers: txt.lower() of the stripped text
code_lc(text) == lower(strip(text))

(***************************************************************************)
(* A handler run ends: with a result, or with the exception of a refused   *)
(* insert (UniqueViolation), which no handler catches: outcome             *)
(* "raised_eu_insert" or "raised_re_insert".  Its slot is then free.       *)
(***************************************************************************)
Ended(run, outcome, number, isnew) ==
    [user_id |-> run.user_id, text |-> run.text, started |-> run.started,
     subscribed |-> run.subscribed, participant_code |-> run.participant_code,
     outcome |-> outcome, entry_number |-> number, is_new |-> isnew]

Finish(t, outcome, number, isnew) ==
    /\ task' = [task EXCEPT ![t] = IdleTask]
    /\ done' = Append(done, Ended(task[t], outcome, number, isnew))

Goto(t, at) == task' = [task EXCEPT ![t].at = at]

(***************************************************************************)
(* handle_code: validation, the admission gate, and the first statement of *)
(* ensure_user (select participant_code from users where user_id = %s).    *)
(* Nothing before that statement reads or writes the store.                *)
(* `subscribed` is what is_subscribed answers for the sender; a run that   *)
(* ends before the gate does not ask, and its record keeps the answer the  *)
(* sender would have got.                                                  *)
(***************************************************************************)
\* (mutant) the sender's row is refreshed before the text is looked at, so
\* that a refused text still rewrites the handle of a known participant
handle_code_refreshes_sender(t, runs, texts, profiles, answers) ==
    /\ task[t].at = "idle"
    /\ \A s \in Tasks : s < t => task[s].at # "idle"
    /\ Len(done) + Cardinality(InProgress) < runs
    /\ \E uid \in UserIds, profile \in profiles, text \in texts,
          subscribed \in {is_subscribed(a, b) : a \in answers, b \in answers} :
         LET txt == strip(text)
             run == [IdleTask EXCEPT !.user_id = uid, !.text = text,
                                     !.subscribed = subscribed,
                                     !.started = Len(done)]
         IN  /\ users' = IF uid \in DOMAIN users
                         THEN [users EXCEPT ![uid] = update_users(users[uid], profile)]
                         ELSE users
             /\ IF txt = << >> \/ startswith_slash(txt)
                THEN /\ done' = Append(done, Ended(run, "ignored", 0, FALSE))
                     /\ UNCHANGED task
                ELSE IF code_lc(text) \notin valid_codes
                THEN /\ done' = Append(done, Ended(run, "invalid", 0, FALSE))
                     /\ UNCHANGED task
                ELSE /\ task' = [task EXCEPT ![t] =
                                   [run EXCEPT
                                      !.profile = profile,
                                      !.participant_code =
                                          IF uid \in DOMAIN users
                                          THEN users[uid].participant_code
                                          ELSE NoCode,
                                      !.at = IF uid \in DOMAIN users
                                             THEN "eu_update" ELSE "eu_generate"]]
                     /\ UNCHANGED done
    /\ UNCHANGED <<user_prefs, entries, entries_id_seq>>

handle_code(t, runs, texts, profiles, answers) ==
    /\ task[t].at = "idle"
    /\ \A s \in Tasks : s < t => task[s].at # "idle"
    /\ Len(done) + Cardinality(InProgress) < runs
    /\ \E uid \in UserIds, profile \in profiles, text \in texts,
          subscribed \in {is_subscribed(a, b) : a \in answers, b \in answers} :
         LET txt == strip(text)
             run == [IdleTask EXCEPT !.user_id = uid, !.text = text,
                                     !.subscribed = subscribed,
                                     !.started = Len(done)]
         IN  IF txt = << >> \/ startswith_slash(txt)
             THEN /\ done' = Append(done, Ended(run, "ignored", 0, FALSE))
                  /\ UNCHANGED task
             ELSE IF code_lc(text) \notin valid_codes
             THEN /\ done' = Append(done, Ended(run, "invalid", 0, FALSE))
                  /\ UNCHANGED task
             ELSE /\ task' = [task EXCEPT ![t] =
                                [run EXCEPT
                                   !.profile = profile,
                                   !.participant_code =
                                       IF uid \in DOMAIN users
                                       THEN users[uid].participant_code
                                       ELSE NoCode,
                                   !.at = IF uid \in DOMAIN users
                                          THEN "eu_update" ELSE "eu_generate"]]
                  /\ UNCHANGED done
    /\ UNCHANGED <<users, user_prefs, entries, entries_id_seq>>

(***************************************************************************)
(* ensure_user                                                             *)
(***************************************************************************)
\* (mutant) the participant's row is replaced (delete, then insert), and the
\* delete takes the participant's entries with it
eu_update_replaces_row(t) ==
    /\ task[t].at = "eu_update"
    /\ users' = [users EXCEPT ![task[t].user_id] =
                    update_users(users[task[t].user_id], task[t].profile)]
    /\ entries' = SelectSeq(entries, LAMBDA e : e.user_id # task[t].user_id)
    /\ task' = [task EXCEPT ![t].at = "eu_prefs", ![t].profile = NoProfile]
    /\ UNCHANGED <<user_prefs, entries_id_seq, done>>

\* existing participant: overwrite the display fields
eu_update(t) ==
    /\ task[t].at = "eu_update"
    /\ users' = [users EXCEPT ![task[t].user_id] =
                    update_users(users[task[t].user_id], task[t].profile)]
    /\ task' = [task EXCEPT ![t].at = "eu_prefs", ![t].profile = NoProfile]
    /\ UNCHANGED <<user_prefs, entries, entries_id_seq, done>>

\* one round of the generate-and-check loop
eu_generate(t) ==
    /\ task[t].at = "eu_generate"
    /\ \E pc \in make_participant_code :
         IF select_participant_code(users, pc) # {}
         THEN UNCHANGED task
         ELSE task' = [task EXCEPT ![t].participant_code = pc,
                                   ![t].at = "eu_insert"]
    /\ UNCHANGED <<users, user_prefs, entries, entries_id_seq, done>>

\* insert into users(user_id, username, first_name, participant_code)
eu_insert(t) ==
    /\ task[t].at = "eu_insert"
    /\ LET uid == task[t].user_id
           pc == task[t].participant_code
       IN  IF users_pkey(users, uid) \/ users_participant_code_key(users, pc)
           THEN /\ Finish(t, "raised_eu_insert", 0, FALSE)
                /\ UNCHANGED users
           ELSE /\ users' = [u \in DOMAIN users \cup {uid} |->
                               IF u = uid
                               THEN [username |-> or_empty(task[t].profile.username),
                                     first_name |-> or_empty(task[t].profile.first_name),
                                     participant_code |-> pc]
                               ELSE users[u]]
                /\ task' = [task EXCEPT ![t].at = "eu_prefs",
                                        ![t].profile = NoProfile]
                /\ UNCHANGED done
    /\ UNCHANGED <<user_prefs, entries, entries_id_seq>>

\* (mutant) the caller registers the entry whatever is_subscribed returned
eu_prefs_registers(t) ==
    /\ task[t].at = "eu_prefs"
    /\ LET uid == task[t].user_id
       IN  user_prefs' = IF uid \in DOMAIN user_prefs THEN user_prefs
                         ELSE [u \in DOMAIN user_prefs \cup {uid} |->
                                 IF u = uid THEN default_prefs ELSE user_prefs[u]]
    /\ Goto(t, "re_select") /\ UNCHANGED done
    /\ UNCHANGED <<users, entries, entries_id_seq>>

\* insert into user_prefs(user_id) values (%s) on conflict (user_id) do nothing;
\* then ensure_user returns and the caller goes on
eu_prefs(t) ==
    /\ task[t].at = "eu_prefs"
    /\ LET uid == task[t].user_id
       IN  user_prefs' = IF uid \in DOMAIN user_prefs THEN user_prefs
                         ELSE [u \in DOMAIN user_prefs \cup {uid} |->
                                 IF u = uid THEN default_prefs ELSE user_prefs[u]]
    /\ IF task[t].subscribed
       THEN Goto(t, "re_select") /\ UNCHANGED done
       ELSE Finish(t, "unsubscribed", 0, FALSE)
    /\ UNCHANGED <<users, entries, entries_id_seq>>

(***************************************************************************)
(* register_entry, after ensure_user                                       *)
(***************************************************************************)
re_select(t) ==
    /\ task[t].at = "re_select"
    /\ LET found == select_entry_number(entries, task[t].user_id, code_lc(task[t].text))
       IN  IF found # {}
           THEN \E n \in found : Finish(t, "ok", n, FALSE)
           ELSE Goto(t, "re_max") /\ UNCHANGED done
    /\ UNCHANGED <<users, user_prefs, entries, entries_id_seq>>

re_max(t) ==
    /\ task[t].at = "re_max"
    /\ task' = [task EXCEPT ![t].max_number = select_max_entry_number(entries),
                            ![t].at = "re_insert"]
    /\ UNCHANGED <<users, user_prefs, entries, entries_id_seq, done>>

\* insert into entries(...): the id is drawn from the sequence before the
\* unique index is checked, so a refused insert still consumes an id.
\* The columns username, first_name and created_at are written here and read
\* by no query of the handlers modelled; the rows of the model leave them out.
re_insert(t) ==
    /\ task[t].at = "re_insert"
    /\ entries_id_seq' = entries_id_seq + 1
    /\ LET uid == task[t].user_id
           code == code_lc(task[t].text)
           number == new_number(task[t].max_number)
       IN  IF idx_entries_user_code(entries, uid, code)
           THEN /\ Finish(t, "raised_re_insert", 0, FALSE)
                /\ UNCHANGED entries
           ELSE /\ entries' = Append(entries,
                                [id |-> entries_id_seq + 1, user_id |-> uid,
                                 code |-> code, entry_number |-> number])
                /\ Finish(t, "ok", number, TRUE)
    /\ UNCHANGED <<users, user_prefs>>

(***************************************************************************)
(* draw_weighted_winner                                                    *)
(***************************************************************************)
\* select u.user_id, u.username, u.first_name, u.participant_code,
\*        count(distinct e.code) from users u left join entries e ... group by ...
select_users_codes_count(us, es) ==
    {[user_id |-> u, username |-> us[u].username, first_name |-> us[u].first_name,
      participant_code |-> us[u].participant_code,
      codes_count |-> codes_count(es, u)] : u \in DOMAIN us}

\* the orders in which fetchall() may deliver a result set: the query has no
\* ORDER BY, so any order of the rows
Orderings(S) ==
    {q \in [1..Cardinality(S) -> S] : \A i, j \in DOMAIN q : i # j => q[i] # q[j]}

\* select user_id, code from entries; the rows come in insertion order
select_user_id_code(es) ==
    [i \in 1..Len(es) |-> [user_id |-> es[i].user_id, code |-> es[i].code]]

\* codes_by_user[uid]: the codes of the rows of uid, in the order of the rows
RECURSIVE codes_by_user(_, _)
codes_by_user(code_rows, uid) ==
    IF code_rows = << >> THEN << >>
    ELSE IF Head(code_rows).user_id = uid
         THEN <<Head(code_rows).code>> \o codes_by_user(Tail(code_rows), uid)
         ELSE codes_by_user(Tail(code_rows), uid)

\* (mutant) the filter skips negative counts only
in_pool_nonnegative(tickets) == tickets >= 0

\* `if tickets <= 0: continue`: the rows that enter the pool
in_pool(tickets) == tickets > 0

\* the pool, in the order of the rows of users
RECURSIVE draw_pool(_, _)
draw_pool(rows, code_rows) ==
    IF rows = << >> THEN << >>
    ELSE LET u == Head(rows)
             rest == draw_pool(Tail(rows), code_rows)
         IN  IF in_pool(u.codes_count)
             THEN <<[user_id |-> u.user_id, username |-> or_empty(u.username),
                     first_name |-> or_empty(u.first_name),
                     participant_code |-> u.participant_code,
                     codes_count |-> u.codes_count,
                     codes |-> codes_by_user(code_rows, u.user_id)]>> \o rest
             ELSE rest

\* total = sum(weights)
RECURSIVE sum_weights(_)
sum_weights(pool) ==
    IF pool = << >> THEN 0 ELSE Head(pool).codes_count + sum_weights(Tail(pool))

\* (mutant) the walk compares with > instead of >=
walk_hit_strict(upto, w, r) == (upto + w) * RGrid > r

\* `if upto + w >= r`, with r given in units of 1/RGrid
walk_hit(upto, w, r) == (upto + w) * RGrid >= r

\* the loop over zip(pool, weights): the index of the entry it returns, or 0
\* when the loop ends without returning
RECURSIVE walk(_, _, _, _)
walk(pool, i, upto, r) ==
    IF i > Len(pool) THEN 0
    ELSE IF walk_hit(upto, pool[i].codes_count, r) THEN i
    ELSE walk(pool, i + 1, upto + pool[i].codes_count, r)

\* (mutant) the drawn value may exceed the total by one unit of 1/RGrid
uniform_beyond_total(total) == 0..(total * RGrid + 1)

\* the values random.uniform(0, total) may deliver, in units of 1/RGrid
uniform(total) == 0..(total * RGrid)

draw_select_users ==
    /\ draw.at = "idle"
    /\ \E rows \in Orderings(select_users_codes_count(users, entries)) :
         draw' = [draw EXCEPT !.at = "select_codes", !.users = rows]
    /\ UNCHANGED <<users, user_prefs, entries, entries_id_seq, task, done>>

draw_select_codes ==
    /\ draw.at = "select_codes"
    /\ draw' = [draw EXCEPT !.at = "walk",
                            !.code_rows = select_user_id_code(entries)]
    /\ UNCHANGED <<users, user_prefs, entries, entries_id_seq, task, done>>

\* the dictionary the draw returns for a pool entry
winner_of(p) ==
    [user_id |-> p.user_id, username |-> p.username, first_name |-> p.first_name,
     participant_code |-> p.participant_code, codes_count |-> p.codes_count,
     codes |-> p.codes, tickets |-> p.codes_count]

\* everything after the two queries: no statement is awaited any more.
\* random.choice(pool) is reached only when the loop ends without returning.
draw_walk ==
    /\ draw.at = "walk"
    /\ LET pool == draw_pool(draw.users, draw.code_rows)
       IN  IF draw.users = << >> \/ pool = << >>
           THEN draw' = [draw EXCEPT !.at = "done", !.returned = "None"]
           ELSE \E r \in uniform(sum_weights(pool)) :
                  LET i == walk(pool, 1, 0, r)
                  IN  \E choice \in (IF i > 0 THEN {i} ELSE 1..Len(pool)) :
                        draw' = [draw EXCEPT !.at = "done", !.r = r,
                                             !.returned = "winner",
                                             !.fallback = (i = 0),
                                             !.winner = winner_of(pool[choice])]
    /\ UNCHANGED <<users, user_prefs, entries, entries_id_seq, task, done>>

(***************************************************************************)
(* Spec: up to NumTasks handler runs in progress at a time.                *)
(***************************************************************************)
Next ==
    /\ \E t \in Tasks :
          \/ handle_code(t, MaxRuns, Texts, Profiles, MemberAnswers)
          \/ eu_update(t)
          \/ eu_generate(t)
          \/ eu_insert(t)
          \/ eu_prefs(t)
          \/ re_select(t)
          \/ re_max(t)
          \/ re_insert(t)
    /\ UNCHANGED <<draw, fsm, POOL>>

Spec == Init /\ [][Next]_vars

(***************************************************************************)
(* SpecSeq: handler runs that follow one another (one run at a time), with *)
(* the wider set of texts.                                                 *)
(***************************************************************************)
NextSeq ==
    /\ \/ handle_code(1, MaxRuns, SeqTexts, SeqProfiles, MemberAnswers)
       \/ eu_update(1)
       \/ eu_generate(1)
       \/ eu_insert(1)
       \/ eu_prefs(1)
       \/ re_select(1)
       \/ re_max(1)
       \/ re_insert(1)
    /\ UNCHANGED <<draw, fsm, POOL>>

SpecSeq == Init /\ [][NextSeq]_vars

(***************************************************************************)
(* SpecDraw: draw_weighted_winner over a store that earlier registrations  *)
(* have filled: any set of participants, each with any set of the codes.   *)
(* Entries are numbered in the order of their registration.                *)
(***************************************************************************)
StoredUserIds == 1..(NumUsers + 1)
StoredCodes == <<headshotking_lc, moovictory_lc>>

\* the participant_code of a stored participant: codes of PART_LEN characters
\* of the alphabet, one per identity
stored_code(u) == [i \in 1..PART_LEN |-> PARTICIPANT_CODE_ALPHABET[u]]

RECURSIVE InOrder(_)
InOrder(pairs) ==
    IF pairs = {} THEN << >>
    ELSE LET m == CHOOSE x \in pairs :
                     \A y \in pairs : x[1] * 10 + x[2] <= y[1] * 10 + y[2]
         IN  <<m>> \o InOrder(pairs \ {m})

InitDraw ==
    \E present \in SUBSET StoredUserIds :
      \E pairs \in SUBSET (present \X (1..Len(StoredCodes))) :
        /\ users = [u \in present |->
                      [username |-> "", first_name |-> "Ann",
                       participant_code |-> stored_code(u)]]
        /\ user_prefs = [u \in present |-> default_prefs]
        /\ entries = LET q == InOrder(pairs)
                     IN  [i \in 1..Len(q) |->
                            [id |-> i, user_id |-> q[i][1],
                             code |-> StoredCodes[q[i][2]], entry_number |-> i]]
        /\ entries_id_seq = Cardinality(pairs)
        /\ task = [t \in Tasks |-> IdleTask]
        /\ done = << >>
        /\ draw = IdleDraw
        /\ fsm = NoDialogue
        /\ POOL = StartedPool

NextDraw ==
    /\ \/ draw_select_users
       \/ draw_select_codes
       \/ draw_walk
    /\ UNCHANGED <<fsm, POOL>>

SpecDraw == InitDraw /\ [][NextDraw]_vars

(***************************************************************************)
(* Properties of the entry ledger and the participant registry.            *)
(***************************************************************************)
Records == {done[i] : i \in 1..Len(done)}

\* register_entry was called and ran to its end, by return or by exception
CalledRegister(r) ==
    r.subscribed /\ r.outcome \in {"ok", "raised_eu_insert", "raised_re_insert"}

SamePair(r, q) == r.user_id = q.user_id /\ code_lc(r.text) = code_lc(q.text)

EntriesOf(uid, code) ==
    {i \in 1..Len(entries) : entries[i].user_id = uid /\ entries[i].code = code}

\* C1: the entry numbers of the Entries in the ledger are pairwise distinct,
\* whatever the interleaving of the register_entry calls.
C1_EntryNumbersDistinct ==
    \A i, j \in 1..Len(entries) :
        i # j => entries[i].entry_number # entries[j].entry_number

\* C2: the ledger holds at most one Entry per (participant, code) pair, also
\* when register_entry calls for the same pair run concurrently.
C2_OneEntryPerPair ==
    \A i, j \in 1..Len(entries) :
        i # j => ~(entries[i].user_id = entries[j].user_id
                   /\ entries[i].code = entries[j].code)

\* a concurrent second insert for a pair was refused by the unique index
C2_Witness ==
    \E r \in Records :
        /\ r.outcome = "raised_re_insert"
        /\ Cardinality(EntriesOf(r.user_id, code_lc(r.text))) = 1

\* C3: among the register_entry calls for one pair, a call that starts after
\* a successful one has ended returns the same entry_number with is_new
\* false; the first call to return has is_new true; and the ledger holds
\* exactly one Entry for the pair, carrying that number.
C3_Idempotent ==
    \A j \in 1..Len(done) :
        CalledRegister(done[j]) =>
            LET earlier == {i \in 1..(j - 1) : /\ SamePair(done[i], done[j])
                                               /\ done[i].outcome = "ok"}
            IN  /\ \A i \in earlier :
                      done[j].started >= i =>
                          /\ done[j].outcome = "ok"
                          /\ done[j].is_new = FALSE
                          /\ done[j].entry_number = done[i].entry_number
                /\ done[j].outcome = "ok" =>
                      /\ done[j].is_new = (earlier = {})
                      /\ \E k \in 1..Len(entries) :
                            /\ EntriesOf(done[j].user_id, code_lc(done[j].text)) = {k}
                            /\ entries[k].entry_number = done[j].entry_number

\* two calls for one pair in sequence, with a registration of another pair
\* between them
C3_Witness ==
    \E i, k, j \in 1..Len(done) :
        /\ i < k /\ k < j
        /\ SamePair(done[i], done[j]) /\ ~SamePair(done[i], done[k])
        /\ done[i].outcome = "ok" /\ done[i].is_new
        /\ done[k].outcome = "ok" /\ done[k].is_new
        /\ done[k].started >= i /\ done[j].started >= k
        /\ done[j].outcome = "ok" /\ ~done[j].is_new

\* C4: two register_entry calls with the same arguments that run
\* concurrently both return, with the same entry_number, one with is_new
\* true and the other with is_new false; neither ends in a failure.
C4_ConcurrentDuplicateHandled ==
    \A i, j \in 1..Len(done) :
        (/\ i < j
         /\ CalledRegister(done[i]) /\ CalledRegister(done[j])
         /\ SamePair(done[i], done[j])
         /\ done[j].started < i)
        => (/\ done[i].outcome = "ok" /\ done[j].outcome = "ok"
            /\ done[i].entry_number = done[j].entry_number
            /\ done[i].is_new # done[j].is_new)

\* C5: entry numbers are non-decreasing in creation order.
C5_EntryNumbersMonotone ==
    \A i, j \in 1..Len(entries) :
        entries[i].id < entries[j].id
            => entries[i].entry_number <= entries[j].entry_number

\* ensure_user returned in the run that record r describes
EnsureUserReturned(r) == r.outcome \in {"ok", "unsubscribed", "raised_re_insert"}

\* C6: a participant_code, once assigned, never changes; every ensure_user
\* call that returns for the identity returns it; and a step changes a stored
\* Participant only by overwriting username and first_name with the values
\* of the call.
C6_StableIdentity ==
    [][ /\ \A u \in DOMAIN users :
              /\ u \in DOMAIN users'
              /\ users'[u].participant_code = users[u].participant_code
              /\ users'[u] # users[u] =>
                    \E t \in Tasks :
                        /\ task[t].at = "eu_update" /\ task[t].user_id = u
                        /\ users'[u].username = or_empty(task[t].profile.username)
                        /\ users'[u].first_name = or_empty(task[t].profile.first_name)
        /\ \A i \in 1..Len(done') :
              EnsureUserReturned(done'[i]) =>
                  /\ done'[i].user_id \in DOMAIN users'
                  /\ done'[i].participant_code
                         = users'[done'[i].user_id].participant_code
      ]_vars

\* a later call for a known identity has overwritten the display fields and
\* returned the code of the first call
C6_Witness ==
    \E i, j \in 1..Len(done) :
        /\ i < j /\ done[j].started >= i
        /\ done[i].user_id = done[j].user_id
        /\ EnsureUserReturned(done[i]) /\ EnsureUserReturned(done[j])
        /\ done[i].participant_code = done[j].participant_code

\* C7: no two distinct Participants have the same participant_code.
C7_ParticipantCodesUnique ==
    \A u, v \in DOMAIN users :
        u # v => users[u].participant_code # users[v].participant_code

\* two new identities drew the same candidate; the second insert was refused
C7_Witness ==
    \E r \in Records :
        /\ r.outcome = "raised_eu_insert"
        /\ r.user_id \notin DOMAIN users
        /\ \E u \in DOMAIN users : users[u].participant_code = r.participant_code

\* C8: from an empty ledger, participant A (admitted) submits HEADSHOTKING,
\* then MOOVICTORY, then headshotking: the results are (1, new), (2, new),
\* (1, not new); the ledger holds two Entries for A and A's weight is 2.
C8_Submitted(r, uid, text) ==
    r.user_id = uid /\ r.text = text /\ r.subscribed

C8_Scenario ==
    \A a \in UserIds :
        LET first == Len(done) >= 1 /\ C8_Submitted(done[1], a, HEADSHOTKING)
            second == first /\ Len(done) >= 2
                            /\ C8_Submitted(done[2], a, MOOVICTORY)
            third == second /\ Len(done) >= 3
                            /\ C8_Submitted(done[3], a, headshotking_lc)
        IN  /\ first => (/\ done[1].outcome = "ok"
                         /\ done[1].entry_number = 1 /\ done[1].is_new)
            /\ second => (/\ done[2].outcome = "ok"
                          /\ done[2].entry_number = 2 /\ done[2].is_new)
            /\ third => (/\ done[3].outcome = "ok"
                         /\ done[3].entry_number = 1 /\ ~done[3].is_new)
            /\ (third /\ Len(done) = 3) =>
                   (/\ Cardinality({i \in 1..Len(entries) :
                                       entries[i].user_id = a}) = 2
                    /\ codes_count(entries, a) = 2)

C8_Witness ==
    /\ Len(done) = 3
    /\ C8_Submitted(done[1], 1, HEADSHOTKING)
    /\ C8_Submitted(done[2], 1, MOOVICTORY)
    /\ C8_Submitted(done[3], 1, headshotking_lc)
    /\ done[3].outcome = "ok"
    /\ codes_count(entries, 1) = 2

(***************************************************************************)
(* Properties of the draw.                                                 *)
(***************************************************************************)
\* C9: the draw never returns a participant of weight 0, and returns None
\* exactly when no participant has a weight above 0.
C9_NoZeroWeightWinner ==
    draw.at = "done" =>
        /\ draw.returned \in {"None", "winner"}
        /\ draw.returned = "winner" =>
              /\ draw.winner.user_id \in DOMAIN users
              /\ codes_count(entries, draw.winner.user_id) > 0
        /\ draw.returned = "None" <=>
              \A u \in DOMAIN users : codes_count(entries, u) = 0

\* a draw over a store with a participant of weight 0 returned a winner
C9_Witness ==
    /\ draw.at = "done" /\ draw.returned = "winner"
    /\ \E u \in DOMAIN users : codes_count(entries, u) = 0

\* the cumulative weight of the first i entries of the pool
RECURSIVE Cumulative(_, _)
Cumulative(pool, i) ==
    IF i = 0 THEN 0 ELSE Cumulative(pool, i - 1) + pool[i].codes_count

\* C10: for a non-empty pool and a drawn r, the winner is the first entry
\* whose cumulative weight is >= r; the values of r that select entry i are
\* those in (cumulative(i-1), cumulative(i)], together with r = 0 for the
\* first entry, so that the share of entry i is proportional to its weight.
C10_FirstCumulativeAtLeastR ==
    (draw.at = "done" /\ draw.returned = "winner") =>
        LET pool == draw_pool(draw.users, draw.code_rows)
            n == Len(pool)
            first(r) == CHOOSE i \in 1..n :
                            /\ Cumulative(pool, i) * RGrid >= r
                            /\ \A k \in 1..(i - 1) : Cumulative(pool, k) * RGrid < r
        IN  /\ n > 0
            /\ draw.r \in 0..(Cumulative(pool, n) * RGrid)
            /\ draw.winner.user_id = pool[first(draw.r)].user_id
            /\ draw.winner.tickets = pool[first(draw.r)].codes_count
            /\ \A i \in 1..n :
                  {r \in 1..(Cumulative(pool, n) * RGrid) : walk(pool, 1, 0, r) = i}
                      = (Cumulative(pool, i - 1) * RGrid + 1)
                            ..(Cumulative(pool, i) * RGrid)
            /\ \A i \in 1..n :
                  Cardinality({r \in 1..(Cumulative(pool, n) * RGrid) :
                                  walk(pool, 1, 0, r) = i})
                      = pool[i].codes_count * RGrid

\* a pool of weights 1 and 2, in which the second entry won
C10_Witness ==
    /\ draw.at = "done" /\ draw.returned = "winner"
    /\ LET pool == draw_pool(draw.users, draw.code_rows)
       IN  /\ Len(pool) = 2
           /\ pool[1].codes_count = 1 /\ pool[2].codes_count = 2
           /\ draw.winner.user_id = pool[2].user_id
           /\ draw.r > RGrid
    /\ \E u \in DOMAIN users : codes_count(entries, u) = 0

(***************************************************************************)
(* SpecRedraw: the operator runs /draw more than once over the same store. *)
(***************************************************************************)
MaxDraws == 2

\* what a finished run of draw_weighted_winner leaves with cmd_draw
Drawn(d) ==
    [handler |-> "cmd_draw", r |-> d.r,
     walk_order |-> LET pool == draw_pool(d.users, d.code_rows)
                    IN  [i \in 1..Len(pool) |-> pool[i].user_id],
     returned |-> d.returned, winner |-> d.winner]

\* cmd_draw after `winner = await draw_weighted_winner()`: the announcement
\* is sent and the handler returns; the next /draw, if the operator sends
\* one, starts a new run
cmd_draw ==
    /\ draw.at = "done"
    /\ Len(done) < MaxDraws
    /\ done' = Append(done, Drawn(draw))
    /\ draw' = IF Len(done) + 1 < MaxDraws THEN IdleDraw
               ELSE [draw EXCEPT !.at = "announced"]
    /\ UNCHANGED <<users, user_prefs, entries, entries_id_seq, task>>

NextRedraw ==
    /\ \/ draw_select_users
       \/ draw_select_codes
       \/ draw_walk
       \/ cmd_draw
    /\ UNCHANGED <<fsm, POOL>>

SpecRedraw == InitDraw /\ [][NextRedraw]_vars

\* C11: over one store and for one value of r, two runs of the draw walk the
\* pool in the same order and return the same winner.
C11_DrawReproducible ==
    \A i, j \in 1..Len(done) :
        (done[i].returned = "winner" /\ done[j].returned = "winner"
            /\ done[i].r = done[j].r)
        => /\ done[i].walk_order = done[j].walk_order
           /\ done[i].winner.user_id = done[j].winner.user_id

(***************************************************************************)
(* SpecDrawRace: a draw runs while handler runs register entries.  The     *)
(* handler runs follow one another; each of their statements may fall      *)
(* before, between or after the two queries of the draw.                   *)
(***************************************************************************)
NextDrawRace ==
    /\ \/ /\ \/ handle_code(1, MaxRuns, Texts, SeqProfiles, ok_status)
             \/ eu_update(1)
             \/ eu_generate(1)
             \/ eu_insert(1)
             \/ eu_prefs(1)
             \/ re_select(1)
             \/ re_max(1)
             \/ re_insert(1)
          /\ UNCHANGED draw
       \/ draw_select_users
       \/ draw_select_codes
       \/ draw_walk
    /\ UNCHANGED <<fsm, POOL>>

SpecDrawRace == Init /\ [][NextDrawRace]_vars

\* C12: the Winner a draw returns carries a weight equal to the number of
\* codes in its code list, both taken from one set of Entries.
C12_DrawSnapshotConsistent ==
    (draw.at = "done" /\ draw.returned = "winner") =>
        /\ draw.winner.codes_count = Len(draw.winner.codes)
        /\ draw.winner.codes_count
             = Cardinality({draw.winner.codes[i] : i \in 1..Len(draw.winner.codes)})

(***************************************************************************)
(* SpecGate: calls of is_subscribed, with every pair of answers of the two *)
(* membership lookups.                                                     *)
(***************************************************************************)
\* one call of is_subscribed: the answers it got and what it returned
is_subscribed_call(runs, answers) ==
    /\ Len(done) < runs
    /\ \E by_username \in answers, by_id \in answers :
         done' = Append(done, [by_username |-> by_username, by_id |-> by_id,
                               returned |-> is_subscribed(by_username, by_id)])
    /\ UNCHANGED <<users, user_prefs, entries, entries_id_seq, task, draw>>

NextGate ==
    /\ is_subscribed_call(MaxRuns, MemberAnswers)
    /\ UNCHANGED <<fsm, POOL>>

SpecGate == Init /\ [][NextGate]_vars

\* C13: is_subscribed returns True only if a lookup completed without error
\* and reported member, administrator or creator; if every lookup raised, it
\* returns False (a Boolean, not the error).
C13_GateFailsClosed ==
    \A i \in 1..Len(done) :
        LET c == done[i]
            admits == {"member", "administrator", "creator"}
        IN  /\ c.returned \in BOOLEAN
            /\ c.returned => (c.by_username \in admits \/ c.by_id \in admits)
            /\ (c.by_username = "error" /\ c.by_id = "error") => ~c.returned

\* one call in which both lookups raised, one in which only the first did
C13_Witness ==
    \E i, j \in 1..Len(done) :
        /\ done[i].by_username = "error" /\ done[i].by_id = "error"
        /\ ~done[i].returned
        /\ done[j].by_username = "error" /\ done[j].by_id = "member"
        /\ done[j].returned

(***************************************************************************)
(* cb_check_sub: the button "subscribed, check" under the denial message.  *)
(* The callback data carries the code as not_subscribed_kb wrote it: the   *)
(* lower-cased code of the denied message.  It is compared with the valid  *)
(* codes as it is.  On denial the handler answers and returns; nothing is  *)
(* written.  On admission it calls register_entry, whose first statement   *)
(* (ensure_user's select) is part of this step.                            *)
(***************************************************************************)
\* callback data of buttons the bot has sent; NOPE: a code no longer valid
CallbackCodes == {headshotking_lc, moovictory_lc, NOPE}

cb_check_sub(t, runs, codes, profiles, answers) ==
    /\ task[t].at = "idle"
    /\ \A s \in Tasks : s < t => task[s].at # "idle"
    /\ Len(done) + Cardinality(InProgress) < runs
    /\ \E uid \in UserIds, profile \in profiles, code \in codes,
          subscribed \in {is_subscribed(a, b) : a \in answers, b \in answers} :
         LET run == [IdleTask EXCEPT !.user_id = uid, !.text = code,
                                     !.subscribed = subscribed,
                                     !.started = Len(done)]
         IN  IF code \notin valid_codes
             THEN /\ done' = Append(done, Ended(run, "invalid", 0, FALSE))
                  /\ UNCHANGED task
             ELSE IF ~subscribed
             THEN /\ done' = Append(done, Ended(run, "unsubscribed", 0, FALSE))
                  /\ UNCHANGED task
             ELSE /\ task' = [task EXCEPT ![t] =
                                [run EXCEPT
                                   !.profile = profile,
                                   !.participant_code =
                                       IF uid \in DOMAIN users
                                       THEN users[uid].participant_code
                                       ELSE NoCode,
                                   !.at = IF uid \in DOMAIN users
                                          THEN "eu_update" ELSE "eu_generate"]]
                  /\ UNCHANGED done
    /\ UNCHANGED <<users, user_prefs, entries, entries_id_seq>>

(***************************************************************************)
(* SpecAdmit: messages and button presses, handled one after another.      *)
(***************************************************************************)
NextAdmit ==
    /\ \/ handle_code(1, MaxRuns, SeqTexts, SeqProfiles, MemberAnswers)
       \/ cb_check_sub(1, MaxRuns, CallbackCodes, SeqProfiles, MemberAnswers)
       \/ eu_update(1)
       \/ eu_generate(1)
       \/ eu_insert(1)
       \/ eu_prefs(1)
       \/ re_select(1)
       \/ re_max(1)
       \/ re_insert(1)
    /\ UNCHANGED <<draw, fsm, POOL>>

SpecAdmit == Init /\ [][NextAdmit]_vars

\* C14: register_entry runs only in a handler run in which is_subscribed
\* returned True; a run in which it returned False ends without calling
\* register_entry; every Entry was created by an admitted run.
C14_NoEntryWithoutAdmission ==
    /\ \A t \in Tasks :
          task[t].at \in {"re_select", "re_max", "re_insert"} => task[t].subscribed
    /\ \A i \in 1..Len(done) :
          ~done[i].subscribed =>
              /\ done[i].outcome \in {"ignored", "invalid", "unsubscribed"}
              /\ done[i].entry_number = 0 /\ ~done[i].is_new
    /\ \A k \in 1..Len(entries) :
          \E i \in 1..Len(done) :
              /\ done[i].subscribed /\ done[i].outcome = "ok" /\ done[i].is_new
              /\ done[i].user_id = entries[k].user_id
              /\ done[i].entry_number = entries[k].entry_number
              /\ lower(strip(done[i].text)) = entries[k].code

\* a sender denied by handle_code (a Participant, no Entry for the code), a sender
\* denied by cb_check_sub (nothing stored), and an admitted registration
C14_Witness ==
    \E i, j, k \in 1..Len(done) :
        /\ done[i].outcome = "unsubscribed" /\ done[i].user_id \in DOMAIN users
        /\ EntriesOf(done[i].user_id, lower(strip(done[i].text))) = {}
        /\ done[j].outcome = "unsubscribed" /\ done[j].user_id \notin DOMAIN users
        /\ done[k].outcome = "ok" /\ done[k].is_new

(***************************************************************************)
(* SpecCase: messages that spell the same words in different letter case   *)
(* and with whitespace around them, handled one after another.             *)
(***************************************************************************)
HeadShotKing == <<"H","e","a","d","S","h","o","t","K","i","n","g">>
headshotking_padded == <<" ">> \o headshotking_lc \o <<"\n">>
Nope_padded == <<"\t", "N">> \o Tail(NOPE) \o <<" ">>
head_shotking == <<"h","e","a","d"," ","s","h","o","t","k","i","n","g">>

CaseTexts ==
    {HEADSHOTKING, HeadShotKing, headshotking_padded, NOPE, Nope_padded,
     head_shotking}

NextCase ==
    /\ \/ handle_code(1, MaxRuns, CaseTexts, SeqProfiles, MemberAnswers)
       \/ eu_update(1)
       \/ eu_generate(1)
       \/ eu_insert(1)
       \/ eu_prefs(1)
       \/ re_select(1)
       \/ re_max(1)
       \/ re_insert(1)
    /\ UNCHANGED <<draw, fsm, POOL>>

SpecCase == Init /\ [][NextCase]_vars

\* two characters that are equal or the two cases of one letter
SameLetter(c, d) ==
    \/ c = d
    \/ \E i \in 1..Len(UpperChars) : {c, d} = {UpperChars[i], LowerChars[i]}

\* the number of whitespace characters a text begins with, and ends with
LeadingSpace(s) ==
    CHOOSE a \in 0..Len(s) :
        /\ \A k \in 1..a : s[k] \in {" ", "\t", "\n"}
        /\ a < Len(s) => s[a + 1] \notin {" ", "\t", "\n"}

TrailingSpace(s) ==
    CHOOSE z \in 0..Len(s) :
        /\ \A k \in (Len(s) - z + 1)..Len(s) : s[k] \in {" ", "\t", "\n"}
        /\ z < Len(s) => s[Len(s) - z] \notin {" ", "\t", "\n"}

\* two texts that differ only in letter case and in surrounding whitespace
SameUpToCaseAndSpace(s, u) ==
    LET a == LeadingSpace(s)
        b == LeadingSpace(u)
        n == IF a = Len(s) THEN 0 ELSE Len(s) - a - TrailingSpace(s)
        m == IF b = Len(u) THEN 0 ELSE Len(u) - b - TrailingSpace(u)
    IN  /\ n = m
        /\ \A k \in 1..n : SameLetter(s[a + k], u[b + k])

\* the pairs of submitted texts that differ only in that way
SameTexts ==
    {p \in CaseTexts \X CaseTexts : SameUpToCaseAndSpace(p[1], p[2])}

\* C15: two submitted texts that differ only in letter case or surrounding
\* whitespace get the same valid/invalid decision, and when valid they are
\* registered under the same lower-case code: for one sender they resolve
\* to the same Entry.
C15_CaseInsensitiveValidation ==
    /\ \A i, j \in 1..Len(done) :
          <<done[i].text, done[j].text>> \in SameTexts =>
              /\ (done[i].outcome \in {"invalid", "ignored"})
                     <=> (done[j].outcome \in {"invalid", "ignored"})
              /\ done[i].outcome \in {"invalid", "ignored"}
                     => done[i].outcome = done[j].outcome
              /\ (/\ done[i].user_id = done[j].user_id
                  /\ done[i].outcome = "ok" /\ done[j].outcome = "ok")
                 => done[i].entry_number = done[j].entry_number
    /\ \A k, m \in 1..Len(entries) :
          /\ \A c \in 1..Len(entries[k].code) :
                /\ entries[k].code[c] \notin {" ", "\t", "\n"}
                /\ \A x \in 1..Len(UpperChars) : entries[k].code[c] # UpperChars[x]
          /\ (entries[k].user_id = entries[m].user_id
                 /\ entries[k].code = entries[m].code)
             => k = m

\* one sender registered with one spelling and repeated it in another
C15_Witness ==
    \E i, j \in 1..Len(done) :
        /\ i < j /\ done[i].text # done[j].text
        /\ <<done[i].text, done[j].text>> \in SameTexts
        /\ done[i].user_id = done[j].user_id
        /\ done[i].outcome = "ok" /\ done[i].is_new
        /\ done[j].outcome = "ok" /\ ~done[j].is_new
        /\ done[j].text = headshotking_padded

(***************************************************************************)
(* get_prefs and toggle_pref.  A call runs in a task slot; its first       *)
(* statement is part of the step that starts it (nothing before that       *)
(* statement touches the store).                                           *)
(***************************************************************************)
Flags == {"notify_results", "notify_new_video", "notify_streams"}
\* the field names a callback may carry: the flags, and another column
Fields == Flags \cup {"updated_at"}

NoPrefs == [raised |-> TRUE]

\* user_prefs.user_id references public.users(user_id)
user_prefs_fkey(us, uid) == uid \in DOMAIN us

\* insert into user_prefs(user_id) values (%s) on conflict (user_id) do nothing
insert_user_prefs(ps, uid) ==
    IF uid \in DOMAIN ps THEN ps
    ELSE [u \in DOMAIN ps \cup {uid} |-> IF u = uid THEN default_prefs ELSE ps[u]]

\* (mutant) the update negates every flag of the row
update_user_prefs_all(row, field) == [f \in DOMAIN row |-> ~row[f]]

\* update user_prefs set {field} = not {field} where user_id = %s
update_user_prefs(row, field) == [row EXCEPT ![field] = ~@]

\* (mutant) no check of the field name
field_unchecked(field) == TRUE

\* assert field in ("notify_results", "notify_new_video", "notify_streams")
field_asserted(field) == field \in Flags

PrefsRun(op, uid, field) ==
    [at |-> "idle", op |-> op, user_id |-> uid, field |-> field,
     started |-> Len(done)]

PrefsEnded(run, outcome, returned) ==
    [op |-> run.op, user_id |-> run.user_id, field |-> run.field,
     started |-> run.started, outcome |-> outcome, returned |-> returned]

PrefsFinish(t, outcome, returned) ==
    /\ task' = [task EXCEPT ![t] = IdleTask]
    /\ done' = Append(done, PrefsEnded(task[t], outcome, returned))

\* get_prefs with its select: a row found is returned
get_prefs(t, runs) ==
    /\ task[t].at = "idle"
    /\ \A s \in Tasks : s < t => task[s].at # "idle"
    /\ Len(done) + Cardinality(InProgress) < runs
    /\ \E uid \in UserIds :
         LET run == PrefsRun("get_prefs", uid, "")
         IN  IF uid \in DOMAIN user_prefs
             THEN /\ done' = Append(done, PrefsEnded(run, "ok", user_prefs[uid]))
                  /\ UNCHANGED task
             ELSE /\ task' = [task EXCEPT ![t] = [run EXCEPT !.at = "gp_insert"]]
                  /\ UNCHANGED done
    /\ UNCHANGED user_prefs

\* get_prefs, no row found: insert the defaults and return them
gp_insert(t) ==
    /\ task[t].at = "gp_insert"
    /\ IF user_prefs_fkey(users, task[t].user_id)
       THEN /\ user_prefs' = insert_user_prefs(user_prefs, task[t].user_id)
            /\ PrefsFinish(t, "ok", default_prefs)
       ELSE /\ PrefsFinish(t, "raised_fkey", NoPrefs)
            /\ UNCHANGED user_prefs

\* toggle_pref up to and with its insert
toggle_pref(t, runs, fields) ==
    /\ task[t].at = "idle"
    /\ \A s \in Tasks : s < t => task[s].at # "idle"
    /\ Len(done) + Cardinality(InProgress) < runs
    /\ \E uid \in UserIds, field \in fields :
         LET run == PrefsRun("toggle_pref", uid, field)
         IN  IF ~field_asserted(field)
             THEN /\ done' = Append(done, PrefsEnded(run, "raised_assert", NoPrefs))
                  /\ UNCHANGED <<task, user_prefs>>
             ELSE IF ~user_prefs_fkey(users, uid)
             THEN /\ done' = Append(done, PrefsEnded(run, "raised_fkey", NoPrefs))
                  /\ UNCHANGED <<task, user_prefs>>
             ELSE /\ user_prefs' = insert_user_prefs(user_prefs, uid)
                  /\ task' = [task EXCEPT ![t] = [run EXCEPT !.at = "tp_update"]]
                  /\ UNCHANGED done

\* (mutant) the update writes false instead of the negation of what is stored
tp_update_switches_off(t) ==
    /\ task[t].at = "tp_update"
    /\ IF task[t].field \in Flags
       THEN /\ user_prefs' =
                 IF task[t].user_id \in DOMAIN user_prefs
                 THEN [user_prefs EXCEPT ![task[t].user_id][task[t].field] = FALSE]
                 ELSE user_prefs
            /\ Goto(t, "gp_select")
            /\ UNCHANGED done
       ELSE /\ PrefsFinish(t, "raised_sql", NoPrefs)
            /\ UNCHANGED user_prefs

\* toggle_pref: the update; a name that is no boolean column is refused by
\* the database
tp_update(t) ==
    /\ task[t].at = "tp_update"
    /\ IF task[t].field \in Flags
       THEN /\ user_prefs' =
                 IF task[t].user_id \in DOMAIN user_prefs
                 THEN [user_prefs EXCEPT ![task[t].user_id] =
                          update_user_prefs(@, task[t].field)]
                 ELSE user_prefs
            /\ Goto(t, "gp_select")
            /\ UNCHANGED done
       ELSE /\ PrefsFinish(t, "raised_sql", NoPrefs)
            /\ UNCHANGED user_prefs

\* toggle_pref: return await get_prefs(user_id), its select
gp_select(t) ==
    /\ task[t].at = "gp_select"
    /\ IF task[t].user_id \in DOMAIN user_prefs
       THEN PrefsFinish(t, "ok", user_prefs[task[t].user_id])
       ELSE Goto(t, "gp_insert") /\ UNCHANGED done
    /\ UNCHANGED user_prefs

(***************************************************************************)
(* SpecPrefs: calls of get_prefs and toggle_pref, up to NumTasks at a      *)
(* time, over a store in which some identities are Participants and some   *)
(* of these have a Preference record.                                      *)
(***************************************************************************)
InitPrefs ==
    \E present \in SUBSET UserIds :
      \E withprefs \in SUBSET present :
        /\ users = [u \in present |->
                      [username |-> "", first_name |-> "Ann",
                       participant_code |-> stored_code(u)]]
        /\ user_prefs = [u \in withprefs |-> default_prefs]
        /\ entries = << >>
        /\ entries_id_seq = 0
        /\ task = [t \in Tasks |-> IdleTask]
        /\ done = << >>
        /\ draw = IdleDraw
        /\ fsm = NoDialogue
        /\ POOL = StartedPool

NextPrefs ==
    /\ \E t \in Tasks :
         \/ get_prefs(t, MaxRuns)
         \/ gp_insert(t)
         \/ toggle_pref(t, MaxRuns, Fields)
         \/ tp_update(t)
         \/ gp_select(t)
    /\ UNCHANGED <<users, entries, entries_id_seq, draw, fsm, POOL>>

SpecPrefs == InitPrefs /\ [][NextPrefs]_vars

(***************************************************************************)
(* Properties of the preference store.                                     *)
(***************************************************************************)
\* the record of the call that ends in the step, if one ends
CallEnds == Len(done') = Len(done) + 1
EndedCall == done'[Len(done')]

\* C16: toggle_pref with a valid flag name negates exactly that flag of that
\* participant and leaves the participant's other flags and every other
\* participant's preferences as they are; what it returns is what is stored
\* when it returns.
C16_ToggleFrame ==
    [][ /\ \A t \in Tasks :
             (task[t].at = "idle" /\ task'[t].at = "tp_update") =>
                 /\ \A u \in DOMAIN user_prefs : u \in DOMAIN user_prefs'
                                                 /\ user_prefs'[u] = user_prefs[u]
                 /\ DOMAIN user_prefs' = DOMAIN user_prefs \cup {task'[t].user_id}
        /\ \A t \in Tasks :
             (task[t].at = "tp_update" /\ task'[t].at # "tp_update") =>
                 LET uid == task[t].user_id
                     f == task[t].field
                 IN  /\ f \in {"notify_results", "notify_new_video", "notify_streams"}
                     /\ uid \in DOMAIN user_prefs
                     /\ DOMAIN user_prefs' = DOMAIN user_prefs
                     /\ user_prefs'[uid][f] = ~user_prefs[uid][f]
                     /\ \A g \in DOMAIN user_prefs[uid] \ {f} :
                           user_prefs'[uid][g] = user_prefs[uid][g]
                     /\ \A u \in DOMAIN user_prefs \ {uid} :
                           user_prefs'[u] = user_prefs[u]
        /\ (CallEnds /\ EndedCall.op = "toggle_pref" /\ EndedCall.outcome = "ok") =>
               /\ EndedCall.user_id \in DOMAIN user_prefs'
               /\ EndedCall.returned = user_prefs'[EndedCall.user_id]
      ]_vars

\* a toggle returned a record with the flag off and the other two on, while
\* another participant's record differs from it
C16_Witness ==
    \E i \in 1..Len(done) :
        /\ done[i].op = "toggle_pref" /\ done[i].outcome = "ok"
        /\ done[i].field = "notify_streams"
        /\ done[i].returned = [default_prefs EXCEPT !.notify_streams = FALSE]
        /\ \E u \in DOMAIN user_prefs :
              u # done[i].user_id /\ user_prefs[u] # done[i].returned

\* C17: toggle_pref with a name outside the three flags is rejected with an
\* error before any store access: the call ends in its first step with the
\* assertion error, no Preference record is created or modified, and no
\* statement is run with the name.
C17_UnknownFlagRejected ==
    [][ /\ \A t \in Tasks :
             task'[t].at \in {"tp_update", "gp_select", "gp_insert"} =>
                 (task'[t].op = "toggle_pref" =>
                     task'[t].field \in {"notify_results", "notify_new_video",
                                         "notify_streams"})
        /\ (/\ CallEnds /\ EndedCall.op = "toggle_pref"
            /\ EndedCall.field \notin {"notify_results", "notify_new_video",
                                       "notify_streams"})
           => /\ EndedCall.outcome = "raised_assert"
              /\ user_prefs' = user_prefs
              /\ task' = task
      ]_vars

\* a call with the name of another column was rejected, for a Participant
\* that has no Preference record
C17_Witness ==
    \E i \in 1..Len(done) :
        /\ done[i].op = "toggle_pref" /\ done[i].field = "updated_at"
        /\ done[i].outcome = "raised_assert"
        /\ done[i].user_id \in DOMAIN users
        /\ done[i].user_id \notin DOMAIN user_prefs

\* C18: get_prefs for an identity without Preference record creates the
\* default record and returns the three flags true, and the record exists
\* afterwards, also when the identity has no Participant record; toggle_pref
\* with a valid flag succeeds for such an identity too.
C18_PrefsForAnyIdentity ==
    [][ /\ (CallEnds /\ EndedCall.op = "get_prefs") =>
               /\ EndedCall.outcome = "ok"
               /\ EndedCall.user_id \in DOMAIN user_prefs'
               /\ EndedCall.user_id \notin DOMAIN user_prefs =>
                      /\ EndedCall.returned = default_prefs
                      /\ user_prefs'[EndedCall.user_id] = default_prefs
        /\ (/\ CallEnds /\ EndedCall.op = "toggle_pref"
            /\ EndedCall.field \in {"notify_results", "notify_new_video",
                                    "notify_streams"})
           => /\ EndedCall.outcome = "ok"
              /\ EndedCall.user_id \in DOMAIN user_prefs'
      ]_vars

(***************************************************************************)
(* _send_broadcast, started by cb_broadcast_confirm as a task of its own.  *)
(***************************************************************************)
field_map ==
    [video |-> "notify_new_video", results |-> "notify_results",
     streams |-> "notify_streams"]
Kinds == DOMAIN field_map

\* the chat of the operator who confirmed the broadcast
admin_chat_id == 0

\* bot.send_message: delivered, or an exception
SendAnswers == {"ok", "error"}

\* select u.user_id from user_prefs p join users u on u.user_id = p.user_id
\* where p.{field} = true
list_subscribers_for(kind, us, ps) ==
    {u \in DOMAIN ps \cap DOMAIN us : ps[u][field_map[kind]]}

\* (mutant) a failed delivery ends the loop
next_recipient_abort(i, answer, n) == IF answer = "error" THEN n + 1 ELSE i + 1

\* `for uid in subs`, each delivery inside try/except: the loop goes on to
\* the next subscriber after a delivery and after a failure alike
next_recipient(i, answer, n) == i + 1

BroadcastEnded(run, outcome) ==
    [op |-> "_send_broadcast", btype |-> run.btype, subs |-> run.subs,
     sent |-> run.sent, failed |-> run.failed, calls |-> run.calls,
     started |-> run.started, outcome |-> outcome]

BroadcastFinish(t, run, outcome) ==
    /\ task' = [task EXCEPT ![t] = IdleTask]
    /\ done' = Append(done, BroadcastEnded(run, outcome))

\* subs = await list_subscribers_for(btype)
send_broadcast(t, runs) ==
    /\ task[t].at = "idle"
    /\ \A s \in Tasks : s < t => task[s].at # "idle"
    /\ Len(done) + Cardinality(InProgress) < runs
    /\ \E btype \in Kinds :
         \E subs \in Orderings(list_subscribers_for(btype, users, user_prefs)) :
           task' = [task EXCEPT ![t] =
                      [at |-> IF subs = << >> THEN "bc_no_recipients" ELSE "bc_send",
                       btype |-> btype, subs |-> subs, i |-> 1, sent |-> 0,
                       failed |-> 0, calls |-> << >>, started |-> Len(done)]]
    /\ UNCHANGED done

\* `if not subs`: the operator is told that there are no recipients
bc_no_recipients(t) ==
    /\ task[t].at = "bc_no_recipients"
    /\ \E answer \in SendAnswers :
         BroadcastFinish(t, [task[t] EXCEPT !.calls = Append(@, admin_chat_id)],
                         IF answer = "ok" THEN "no_recipients" ELSE "raised")

\* one round of the loop: bot.send_message(uid, text), then the pause
bc_send(t) ==
    /\ task[t].at = "bc_send"
    /\ \E answer \in SendAnswers :
         LET run == task[t]
             i == next_recipient(run.i, answer, Len(run.subs))
         IN  task' = [task EXCEPT ![t] =
                        [run EXCEPT
                           !.calls = Append(@, run.subs[run.i]),
                           !.sent = IF answer = "ok" THEN @ + 1 ELSE @,
                           !.failed = IF answer = "ok" THEN @ ELSE @ + 1,
                           !.i = i,
                           !.at = IF i > Len(run.subs) THEN "bc_report"
                                  ELSE "bc_send"]]
    /\ UNCHANGED done

\* the report to the operator
bc_report(t) ==
    /\ task[t].at = "bc_report"
    /\ \E answer \in SendAnswers :
         BroadcastFinish(t, [task[t] EXCEPT !.calls = Append(@, admin_chat_id)],
                         IF answer = "ok" THEN "reported" ELSE "raised")

(***************************************************************************)
(* SpecBroadcast: broadcasts, one after another (a broadcast only reads    *)
(* the store, and shares nothing else with another), over a store in which *)
(* each identity is no Participant, a Participant without Preference       *)
(* record, one with the defaults, or one who has switched the video        *)
(* notifications off.                                                      *)
(***************************************************************************)
InitBroadcast ==
    \E present \in SUBSET StoredUserIds :
      \E withprefs \in SUBSET present :
        \E off \in SUBSET withprefs :
          /\ users = [u \in present |->
                        [username |-> "", first_name |-> "Ann",
                         participant_code |-> stored_code(u)]]
          /\ user_prefs = [u \in withprefs |->
                             IF u \in off
                             THEN [default_prefs EXCEPT !.notify_new_video = FALSE]
                             ELSE default_prefs]
          /\ entries = << >>
          /\ entries_id_seq = 0
          /\ task = [t \in Tasks |-> IdleTask]
          /\ done = << >>
          /\ draw = IdleDraw
          /\ fsm = NoDialogue
          /\ POOL = StartedPool

MaxBroadcasts == 2

NextBroadcast ==
    /\ \/ send_broadcast(1, MaxBroadcasts)
       \/ bc_no_recipients(1)
       \/ bc_send(1)
       \/ bc_report(1)
    /\ UNCHANGED <<users, user_prefs, entries, entries_id_seq, draw, fsm, POOL>>

SpecBroadcast == InitBroadcast /\ [][NextBroadcast]_vars

\* the recipients among the calls of the transport: every call but the
\* closing message to the operator
ToSubscribers(calls) ==
    {k \in 1..Len(calls) : calls[k] # admin_chat_id}

\* C19: a broadcast for a category without opted-in participants ends with
\* 0 delivered and 0 failed and without any call of the transport.
C19_EmptyBroadcastSilent ==
    \A i \in 1..Len(done) :
        done[i].subs = << >> =>
            /\ done[i].sent = 0 /\ done[i].failed = 0
            /\ done[i].calls = << >>

\* C20: a failed delivery does not end a broadcast: every resolved
\* subscriber is attempted exactly once, and at the end delivered + failed
\* is the number of resolved subscribers.
C20_BroadcastCompletes ==
    /\ \A t \in Tasks :
          task[t].at \in {"bc_send", "bc_report"} =>
              /\ task[t].sent + task[t].failed = task[t].i - 1
              /\ task[t].at = "bc_report" => task[t].i = Len(task[t].subs) + 1
    /\ \A i \in 1..Len(done) :
          done[i].subs # << >> =>
              /\ done[i].sent + done[i].failed = Len(done[i].subs)
              /\ \A s \in 1..Len(done[i].subs) :
                    Cardinality({k \in ToSubscribers(done[i].calls) :
                                    done[i].calls[k] = done[i].subs[s]}) = 1
              /\ Cardinality(ToSubscribers(done[i].calls)) = Len(done[i].subs)

\* a broadcast to two subscribers: the first delivery failed, the second
\* went through
C20_Witness ==
    \E i \in 1..Len(done) :
        /\ Len(done[i].subs) = 2
        /\ done[i].failed = 1 /\ done[i].sent = 1
        /\ done[i].outcome = "reported"
        /\ \E j \in 1..Len(done) : j # i /\ done[j].failed = Len(done[j].subs)
                                        /\ Len(done[j].subs) >= 2


(***************************************************************************)
(* The broadcast dialogue of the operator (BroadcastState) and the task    *)
(* that cb_broadcast_confirm creates with asyncio.create_task.  The        *)
(* handlers of the dialogue read and write the dispatcher's storage and    *)
(* nothing else; each is one step.                                         *)
(***************************************************************************)
BroadcastState_text == "BroadcastState:text"

\* what the operator may send as the text of a broadcast
BroadcastTexts == {"new video"}

\* data.get(key, default)
data_get(data, key, default) == IF data[key] = None THEN default ELSE data[key]

\* state.clear(): the state and the data are dropped; the messages of the
\* chat stay
clear(f) == [f EXCEPT !.state = NoDialogue.state, !.data = NoDialogue.data]

\* cb_admin_broadcast: set_state(btype), update_data(btype=btype),
\* set_state(text); update_data keeps the keys it is not given
cb_admin_broadcast ==
    /\ \E btype \in Kinds :
         fsm' = [fsm EXCEPT !.state = BroadcastState_text,
                            !.data.btype = btype]
    /\ UNCHANGED <<task, done>>

\* broadcast_collect_text: the filter lets it run in state text only; it
\* answers with the preview and its two buttons
broadcast_collect_text ==
    /\ fsm.state = BroadcastState_text
    /\ \E text \in BroadcastTexts :
         fsm' = [fsm EXCEPT !.data.text = text, !.preview = TRUE]
    /\ UNCHANGED <<task, done>>

\* /cancel: state.clear()
cmd_cancel ==
    /\ fsm' = clear(fsm)
    /\ UNCHANGED <<task, done>>

\* the button "broadcast:cancel": state.clear()
cb_broadcast_cancel ==
    /\ fsm.preview
    /\ fsm' = clear(fsm)
    /\ UNCHANGED <<task, done>>

\* the button "broadcast:confirm": the filter is the callback data alone.
\* The handler reads the data with its defaults, clears the dialogue and
\* creates the task, which runs after the handler has returned.
cb_broadcast_confirm(t, runs) ==
    /\ fsm.preview
    /\ task[t].at = "idle"
    /\ Len(done) < runs
    /\ task' = [task EXCEPT ![t] =
                  [at |-> "bc_list",
                   btype |-> data_get(fsm.data, "btype", "video"),
                   text |-> data_get(fsm.data, "text", ""),
                   subs |-> << >>, i |-> 1, sent |-> 0, failed |-> 0,
                   calls |-> << >>, started |-> Len(done)]]
    /\ fsm' = clear(fsm)
    /\ UNCHANGED done

\* the first statement of the task: subs = await list_subscribers_for(btype).
\* The query returns the rows, or the store raises and the exception ends
\* the task.
bc_list(t) ==
    /\ task[t].at = "bc_list"
    /\ \/ /\ \E subs \in Orderings(list_subscribers_for(task[t].btype, users,
                                                        user_prefs)) :
               task' = [task EXCEPT ![t].subs = subs,
                                    ![t].at = IF subs = << >>
                                              THEN "bc_no_recipients"
                                              ELSE "bc_send"]
          /\ UNCHANGED done
       \/ BroadcastFinish(t, task[t], "raised_store")
    /\ UNCHANGED fsm

(***************************************************************************)
(* SpecDialogue: the operator's dialogue and the broadcasts it starts, one *)
(* broadcast in progress at a time, over the stores of InitPrefs.          *)
(***************************************************************************)
NextDialogue ==
    /\ \/ cb_admin_broadcast
       \/ broadcast_collect_text
       \/ cmd_cancel
       \/ cb_broadcast_cancel
       \/ cb_broadcast_confirm(1, MaxBroadcasts)
       \/ bc_list(1)
       \/ (bc_no_recipients(1) /\ UNCHANGED fsm)
       \/ (bc_send(1) /\ UNCHANGED fsm)
       \/ (bc_report(1) /\ UNCHANGED fsm)
    /\ UNCHANGED <<users, user_prefs, entries, entries_id_seq, draw, POOL>>

SpecDialogue == InitPrefs /\ [][NextDialogue]_vars

\* C21: every broadcast that cb_broadcast_confirm started has, when its task
\* ends, reported the final tally (delivered and failed counts) to the
\* operator, also when the store or the transport failed during the run.
C21_BroadcastReportsTally ==
    \A i \in 1..Len(done) : done[i].outcome = "reported"


\* a step in which cb_broadcast_confirm creates the task of a broadcast
BroadcastStarts ==
    \E t \in Tasks : task[t].at = "idle" /\ task'[t].at = "bc_list"

\* C28: a broadcast is started only out of the current dialogue, that is in
\* state text with a category and a text collected, and with that category
\* and text; after a cancellation, or after the confirmation that has
\* already used the text, a further confirm callback starts nothing.
C28_ConfirmNeedsDialogue ==
    [][BroadcastStarts =>
          /\ fsm.state = BroadcastState_text
          /\ fsm.data.btype # None /\ fsm.data.text # None
          /\ \A t \in Tasks :
                task'[t].at = "bc_list" =>
                    /\ task'[t].btype = fsm.data.btype
                    /\ task'[t].text = fsm.data.text
      ]_vars


(***************************************************************************)
(* ensure_user of db.py, the store module with the same signatures: the    *)
(* branch of an existing participant updates the display fields and        *)
(* returns; it has no insert into user_prefs.                              *)
(***************************************************************************)
Modules == {"bot.py", "db.py"}

db_ensure_user_update(t) ==
    /\ task[t].at = "eu_update"
    /\ users' = [users EXCEPT ![task[t].user_id] =
                    update_users(users[task[t].user_id], task[t].profile)]
    /\ IF task[t].subscribed
       THEN /\ task' = [task EXCEPT ![t].at = "re_select",
                                    ![t].profile = NoProfile]
            /\ UNCHANGED done
       ELSE Finish(t, "unsubscribed", 0, FALSE)
    /\ UNCHANGED <<user_prefs, entries, entries_id_seq>>

(***************************************************************************)
(* SpecEnsure: handler runs that follow one another, in a process that     *)
(* uses the store functions of bot.py or those of db.py, over a store in   *)
(* which each identity is no Participant, a Participant without Preference *)
(* record (a row older than the table user_prefs, or one whose second      *)
(* insert failed), one with the defaults, or one who has switched the      *)
(* video notifications off.                                                *)
(***************************************************************************)
InitEnsure ==
    \E module \in Modules :
      \E present \in SUBSET UserIds :
        \E withprefs \in SUBSET present :
          \E off \in SUBSET withprefs :
            /\ users = [u \in present |->
                          [username |-> "", first_name |-> "Ann",
                           participant_code |-> stored_code(u)]]
            /\ user_prefs = [u \in withprefs |->
                               IF u \in off
                               THEN [default_prefs EXCEPT !.notify_new_video = FALSE]
                               ELSE default_prefs]
            /\ entries = << >>
            /\ entries_id_seq = 0
            /\ task = [t \in Tasks |-> IdleTask]
            /\ done = << >>
            /\ draw = IdleDraw
            /\ fsm = NoDialogue
            /\ POOL = [StartedPool EXCEPT !.module = module]

NextEnsure ==
    /\ \/ handle_code(1, MaxRuns, Texts, SeqProfiles, MemberAnswers)
       \/ (POOL.module = "bot.py" /\ eu_update(1))
       \/ (POOL.module = "db.py" /\ db_ensure_user_update(1))
       \/ eu_generate(1)
       \/ eu_insert(1)
       \/ eu_prefs(1)
       \/ re_select(1)
       \/ re_max(1)
       \/ re_insert(1)
    /\ UNCHANGED <<draw, fsm, POOL>>

SpecEnsure == InitEnsure /\ [][NextEnsure]_vars

\* a step in which the ensure_user call of run t returns its code
EnsureUserReturns(t) ==
    /\ task[t].at \in {"eu_update", "eu_prefs"}
    /\ task'[t].at \in {"re_select", "idle"}

\* C22: when an ensure_user call returns, the participant has a Preference
\* record; a record the call created has all three flags true, and a record
\* that existed before the call's insert is left as it was.
C22_EnsureUserPrefs ==
    [][\A t \in Tasks :
          EnsureUserReturns(t) =>
              LET uid == task[t].user_id
              IN  /\ uid \in DOMAIN user_prefs'
                  /\ uid \in DOMAIN user_prefs
                        => user_prefs'[uid] = user_prefs[uid]
                  /\ uid \notin DOMAIN user_prefs
                        => user_prefs'[uid] = default_prefs
      ]_vars


(***************************************************************************)
(* SpecGenerate: first contacts, one after another, with a registry that   *)
(* already holds participants (identities other than the ones that write   *)
(* in) with any set of the codes of the configured alphabet and length.    *)
(* secrets.choice draws every character with positive probability: a code  *)
(* that is free is drawn sooner or later, which is the fairness condition. *)
(***************************************************************************)
RECURSIVE SetToSeq(_)
SetToSeq(S) ==
    IF S = {} THEN << >>
    ELSE LET x == CHOOSE y \in S : TRUE IN <<x>> \o SetToSeq(S \ {x})

InitGenerate ==
    \E taken \in SUBSET make_participant_code :
      LET codes == SetToSeq(taken)
      IN  /\ users = [u \in {NumUsers + k : k \in 1..Len(codes)} |->
                        [username |-> "", first_name |-> "Ann",
                         participant_code |-> codes[u - NumUsers]]]
          /\ user_prefs = [u \in {NumUsers + k : k \in 1..Len(codes)} |->
                             default_prefs]
          /\ entries = << >>
          /\ entries_id_seq = 0
          /\ task = [t \in Tasks |-> IdleTask]
          /\ done = << >>
          /\ draw = IdleDraw
          /\ fsm = NoDialogue
          /\ POOL = StartedPool

NextGenerate ==
    /\ \/ handle_code(1, MaxRuns, Texts, SeqProfiles, MemberAnswers)
       \/ eu_update(1)
       \/ eu_generate(1)
       \/ eu_insert(1)
       \/ eu_prefs(1)
       \/ re_select(1)
       \/ re_max(1)
       \/ re_insert(1)
    /\ UNCHANGED <<draw, fsm, POOL>>

\* the round of the loop that draws a free code and leaves the loop
eu_generate_break(t) ==
    /\ eu_generate(t)
    /\ task'[t].at = "eu_insert"
    /\ UNCHANGED <<draw, fsm, POOL>>

SpecGenerate ==
    InitGenerate /\ [][NextGenerate]_vars /\ WF_vars(eu_generate_break(1))

\* the codes of the configured alphabet and length no participant holds
FreeCodes == {pc \in make_participant_code : ~users_participant_code_key(users, pc)}

\* C23 as stated: the loop of ensure_user ends whatever the number of
\* registered participants, so a call that is in the loop always has a
\* round that leaves it.
C23_LoopEndsForAnyRegistry ==
    \A t \in Tasks : task[t].at = "eu_generate" => FreeCodes # {}

\* C23 (amended): a call leaves the loop only with a code that no
\* Participant holds at the time of the check, and while some code of the
\* configured alphabet and length is free the loop ends.
C23_LoopYieldsFreeCode ==
    /\ [][\A t \in Tasks :
             (task[t].at = "eu_generate" /\ task'[t].at = "eu_insert")
                 => task'[t].participant_code \in FreeCodes]_vars
    /\ (task[1].at = "eu_generate" /\ FreeCodes # {}) ~> (task[1].at = "eu_insert")

\* a participant created while another one held a code of the alphabet
C23_Witness ==
    /\ \E u \in UserIds \cap DOMAIN users :
         \E v \in DOMAIN users \ UserIds :
            /\ users[v].participant_code \in make_participant_code
            /\ users[u].participant_code \in make_participant_code
            /\ users[u].participant_code # users[v].participant_code


(***************************************************************************)
(* The pool global.  bot.py: POOL, set by init_db, which every store       *)
(* function calls first; the startup hook awaits the first call before any *)
(* handler runs, and the shutdown hook closes the pool and sets the global *)
(* back to None while handler tasks may still be running.  db.py: _pool,   *)
(* set by init, which is to be called before each update is handled.       *)
(***************************************************************************)
\* the global as the module leaves it at import: None, no pool made
MaxPools == 3        \* pool objects made in one behaviour
MaxInitCalls == 6    \* calls of init_db / init in one behaviour

NoPool ==
    [module |-> "bot.py", ref |-> 0, constructed |-> 0, opened |-> {},
     in_use |-> 0]

\* what the use of the global does: it works on an open pool only
pool_use(pool) ==
    IF pool.ref = 0 THEN "raised_none"
    ELSE IF pool.ref \in pool.opened THEN "ok" ELSE "raised_not_open"

InitCall(op, at, pool) ==
    [at |-> at, op |-> op, pool |-> pool, started |-> Len(done)]

InitEnded(run, outcome) ==
    [op |-> run.op, pool |-> run.pool, started |-> run.started,
     outcome |-> outcome]

\* init_db up to its first await: `if POOL is None: POOL = AsyncConnectionPool(...)`
\* constructs the pool and assigns it at once; then `await POOL.open(wait=True)`.
\* The first call is the one of the startup hook, which nothing runs beside.
init_db(t, runs) ==
    /\ POOL.module = "bot.py"
    /\ task[t].at = "idle"
    /\ Len(done) + Cardinality(InProgress) < runs
    /\ Len(done) > 0 \/ InProgress = {}
    /\ IF POOL.ref = 0
       THEN /\ POOL' = [POOL EXCEPT !.ref = POOL.constructed + 1,
                                    !.constructed = @ + 1]
            /\ task' = [task EXCEPT ![t] =
                          InitCall("init_db", "init_db_open", POOL.constructed + 1)]
       ELSE /\ task' = [task EXCEPT ![t] =
                          InitCall("init_db", "init_db_connection", POOL.ref)]
            /\ UNCHANGED POOL
    /\ UNCHANGED done

\* POOL.open(wait=True) returns: the pool this call made is open
init_db_open(t) ==
    /\ task[t].at = "init_db_open"
    /\ POOL' = [POOL EXCEPT !.opened = @ \cup {task[t].pool}]
    /\ task' = [task EXCEPT ![t].at = "init_db_connection"]
    /\ UNCHANGED done

\* `async with POOL.connection() as conn: await conn.execute(INIT_SQL)`, on
\* the pool the global refers to now: a pool that is not open raises
\* PoolClosed, and the None a shutdown has left raises AttributeError
init_db_connection(t) ==
    /\ task[t].at = "init_db_connection"
    /\ task' = [task EXCEPT ![t] = IdleTask]
    /\ done' = Append(done, InitEnded([task[t] EXCEPT !.pool = POOL.ref],
                                      pool_use(POOL)))
    /\ UNCHANGED POOL

\* _on_shutdown, which runs after the startup hook has returned:
\* `await POOL.close(); POOL = None`
on_shutdown ==
    /\ POOL.module = "bot.py"
    /\ Len(done) > 0
    /\ POOL.ref # 0 /\ POOL.ref \in POOL.opened
    /\ POOL.constructed < MaxPools
    /\ POOL' = [POOL EXCEPT !.ref = 0, !.opened = @ \ {POOL.ref}]
    /\ UNCHANGED <<task, done>>

\* init of db.py up to its first await: `if _pool is None:` and then
\* `await asyncpg.create_pool(...)`, the global still None meanwhile
init(t, runs) ==
    /\ POOL.module = "db.py"
    /\ task[t].at = "idle"
    /\ Len(done) + Cardinality(InProgress) < runs
    /\ task' = [task EXCEPT ![t] =
                  InitCall("init", IF POOL.ref = 0 THEN "init_create_pool"
                                   ELSE "init_acquire", POOL.ref)]
    /\ UNCHANGED <<POOL, done>>

\* create_pool returns an open pool, which is assigned to the global
init_create_pool(t) ==
    /\ task[t].at = "init_create_pool"
    /\ POOL' = [POOL EXCEPT !.ref = POOL.constructed + 1,
                            !.constructed = @ + 1,
                            !.opened = @ \cup {POOL.constructed + 1}]
    /\ task' = [task EXCEPT ![t].at = "init_acquire",
                            ![t].pool = POOL.constructed + 1]
    /\ UNCHANGED done

\* `async with _pool.acquire() as con:` and the create statements
init_acquire(t) ==
    /\ task[t].at = "init_acquire"
    /\ task' = [task EXCEPT ![t] = IdleTask]
    /\ done' = Append(done, InitEnded([task[t] EXCEPT !.pool = POOL.ref],
                                      pool_use(POOL)))
    /\ UNCHANGED POOL

(***************************************************************************)
(* SpecInit: calls of init_db (bot.py) or of init (db.py) by up to         *)
(* NumTasks tasks at a time, from the global as the module leaves it.      *)
(***************************************************************************)
InitInit ==
    /\ users = << >>
    /\ user_prefs = << >>
    /\ entries = << >>
    /\ entries_id_seq = 0
    /\ task = [t \in Tasks |-> IdleTask]
    /\ done = << >>
    /\ draw = IdleDraw
    /\ fsm = NoDialogue
    /\ \E module \in Modules : POOL = [NoPool EXCEPT !.module = module]

NextInit ==
    /\ \/ \E t \in Tasks :
            \/ init_db(t, MaxInitCalls)
            \/ init_db_open(t)
            \/ init_db_connection(t)
            \/ init(t, MaxInitCalls)
            \/ init_create_pool(t)
            \/ init_acquire(t)
       \/ on_shutdown
    /\ UNCHANGED <<users, user_prefs, entries, entries_id_seq, draw, fsm>>

SpecInit == InitInit /\ [][NextInit]_vars

\* C24: whatever the interleaving of the init_db / init calls, one pool
\* object is made in the run of the process, and no call uses a pool that
\* is assigned to the global and not open yet.
C24_PoolConstructedOnce ==
    /\ POOL.constructed <= 1
    /\ \A i \in 1..Len(done) : done[i].outcome # "raised_not_open"


(***************************************************************************)
(* Persistence failures.  Every statement of ensure_user and of            *)
(* register_entry runs in its own transaction (autocommit): a statement    *)
(* the store refuses or cannot be sent has no effect, its exception is     *)
(* caught by nothing in the two functions and ends the handler run.        *)
(***************************************************************************)
Statements ==
    {"eu_update", "eu_generate", "eu_insert", "eu_prefs",
     "re_select", "re_max", "re_insert"}

failed_at ==
    [eu_update |-> "failed_eu_update", eu_generate |-> "failed_eu_generate",
     eu_insert |-> "failed_eu_insert", eu_prefs |-> "failed_eu_prefs",
     re_select |-> "failed_re_select", re_max |-> "failed_re_max",
     re_insert |-> "failed_re_insert"]

Failed == {failed_at[s] : s \in Statements} \cup {"failed_eu_select"}

\* (mutant) the failing statement is applied before its exception is raised:
\* the insert into entries goes through and the run fails all the same
PersistenceError_applied(t) ==
    /\ task[t].at \in Statements
    /\ Finish(t, failed_at[task[t].at], 0, FALSE)
    /\ IF task[t].at = "re_insert"
       THEN /\ entries' = Append(entries,
                            [id |-> entries_id_seq + 1, user_id |-> task[t].user_id,
                             code |-> code_lc(task[t].text),
                             entry_number |-> new_number(task[t].max_number)])
            /\ entries_id_seq' = entries_id_seq + 1
       ELSE UNCHANGED <<entries, entries_id_seq>>
    /\ UNCHANGED <<users, user_prefs>>

\* the statement the run is about to execute raises
PersistenceError(t) ==
    /\ task[t].at \in Statements
    /\ Finish(t, failed_at[task[t].at], 0, FALSE)
    /\ UNCHANGED <<users, user_prefs, entries, entries_id_seq>>

\* the first statement of ensure_user (or init_db before it) raises: the run
\* of an admitted sender with a valid code ends before it has read anything
first_select_raises(t, runs, texts) ==
    /\ task[t].at = "idle"
    /\ Len(done) + Cardinality(InProgress) < runs
    /\ \E uid \in UserIds, text \in texts :
         /\ code_lc(text) \in valid_codes
         /\ done' = Append(done,
                      Ended([IdleTask EXCEPT !.user_id = uid, !.text = text,
                                             !.subscribed = TRUE,
                                             !.started = Len(done)],
                            "failed_eu_select", 0, FALSE))
    /\ UNCHANGED <<users, user_prefs, entries, entries_id_seq, task>>

(***************************************************************************)
(* SpecFail: registrations of admitted senders, one after another, each    *)
(* of which may fail at any of its statements.                             *)
(***************************************************************************)
NextFail ==
    /\ \/ handle_code(1, MaxRuns, Texts, SeqProfiles, ok_status)
       \/ first_select_raises(1, MaxRuns, Texts)
       \/ PersistenceError(1)
       \/ eu_update(1)
       \/ eu_generate(1)
       \/ eu_insert(1)
       \/ eu_prefs(1)
       \/ re_select(1)
       \/ re_max(1)
       \/ re_insert(1)
    /\ UNCHANGED <<draw, fsm, POOL>>

SpecFail == Init /\ [][NextFail]_vars

\* the runs before run j that registered the pair of run j
RegisteredBefore(j) ==
    {k \in 1..(j - 1) : SamePair(done[k], done[j]) /\ done[k].outcome = "ok"}

get_user_entries(t, runs) ==
    /\ task[t].at = "idle"
    /\ Len(done) + Cardinality(InProgress) < runs
    /\ \E uid \in UserIds :
         done' = Append(done,
                   [op |-> "get_user_entries", user_id |-> uid, outcome |-> "ok",
                    participant_code |-> IF uid \in DOMAIN users
                                         THEN users[uid].participant_code
                                         ELSE <<"-">>,
                    returned |-> [i \in 1..Len(SelectSeq(entries,
                                                   LAMBDA e : e.user_id = uid)) |->
                                    LET e == SelectSeq(entries,
                                               LAMBDA x : x.user_id = uid)[i]
                                    IN  <<e.code, e.entry_number>>]])
    /\ UNCHANGED <<users, user_prefs, entries, entries_id_seq, task>>

\* export_csv: the rows of the ledger ordered by id
export_csv(t, runs) ==
    /\ task[t].at = "idle"
    /\ Len(done) + Cardinality(InProgress) < runs
    /\ done' = Append(done,
                 [op |-> "export_csv", outcome |-> "ok",
                  returned |-> [i \in 1..Len(entries) |->
                                  <<entries[i].user_id, entries[i].code,
                                    entries[i].entry_number>>]])
    /\ UNCHANGED <<users, user_prefs, entries, entries_id_seq, task>>

(***************************************************************************)
(* SpecLedger: every store function, the handler runs one after another    *)
(* and the draw beside them, over a store in which participant 1 has       *)
(* registered one code under an earlier handle.                            *)
(***************************************************************************)
InitLedger ==
    /\ users = [u \in {1} |-> [username |-> "", first_name |-> "Ann",
                               participant_code |-> stored_code(u)]]
    /\ user_prefs = [u \in {1} |-> default_prefs]
    /\ entries = <<[id |-> 1, user_id |-> 1, code |-> headshotking_lc,
                    entry_number |-> 1]>>
    /\ entries_id_seq = 1
    /\ task = [t \in Tasks |-> IdleTask]
    /\ done = << >>
    /\ draw = IdleDraw
    /\ fsm = NoDialogue
    /\ POOL = StartedPool

\* the number of handler runs of SpecLedger
LedgerRuns == 2

NextLedger ==
    /\ \/ /\ \/ handle_code(1, LedgerRuns, Texts, SeqProfiles, MemberAnswers)
             \/ eu_update(1)
             \/ eu_generate(1)
             \/ eu_insert(1)
             \/ eu_prefs(1)
             \/ re_select(1)
             \/ re_max(1)
             \/ re_insert(1)
             \/ get_user_entries(1, LedgerRuns)
             \/ export_csv(1, LedgerRuns)
          /\ UNCHANGED draw
       \/ /\ \/ get_prefs(1, LedgerRuns)
             \/ gp_insert(1)
             \/ toggle_pref(1, LedgerRuns, Flags)
             \/ tp_update(1)
             \/ gp_select(1)
          /\ UNCHANGED <<users, entries, entries_id_seq, draw>>
       \/ /\ \/ send_broadcast(1, LedgerRuns)
             \/ bc_no_recipients(1)
             \/ bc_send(1)
             \/ bc_report(1)
          /\ UNCHANGED <<users, user_prefs, entries, entries_id_seq, draw>>
       \/ draw_select_users
       \/ draw_select_codes
       \/ draw_walk
    /\ UNCHANGED <<fsm, POOL>>

SpecLedger == InitLedger /\ [][NextLedger]_vars

\* C26: no step changes or removes an Entry of the ledger, and a step that
\* adds one is the insert of register_entry and adds exactly one at the
\* end; in particular the steps of ensure_user, which rewrite the
\* participant's handle, leave every Entry as it was.
C26_LedgerAppendOnly ==
    [][/\ Len(entries') >= Len(entries)
       /\ SubSeq(entries', 1, Len(entries)) = entries
       /\ entries' # entries =>
             /\ Len(entries') = Len(entries) + 1
             /\ \E t \in Tasks : task[t].at = "re_insert"
      ]_vars

\* the handle of participant 1 has been rewritten, a second Entry has been
\* added, a draw has ended, a preference has been switched off and a
\* broadcast has run, and the Entry of the start is still in its place
C26_Witness ==
    /\ users[1].username = "ann"
    /\ Len(entries) >= 2
    /\ entries[1] = [id |-> 1, user_id |-> 1, code |-> headshotking_lc,
                     entry_number |-> 1]
    /\ draw.at = "done" /\ draw.returned = "winner"
    /\ \E u \in DOMAIN user_prefs : user_prefs[u] # default_prefs


\* C27: the uniform-choice fallback after the loop is never reached: for
\* every non-empty pool of positive integer weights and every r the draw
\* can deliver in [0, total], the loop itself returns an entry of the pool,
\* at the latest the last one, whose cumulative weight is the total.
C27_FallbackNeverReached ==
    (draw.at = "done" /\ draw.returned = "winner") =>
        LET pool == draw_pool(draw.users, draw.code_rows)
        IN  /\ ~draw.fallback
            /\ walk(pool, 1, 0, draw.r) \in 1..Len(pool)
            /\ \A i \in 1..Len(pool) : pool[i].codes_count >= 1
            /\ \A r \in uniform(sum_weights(pool)) :
                  walk(pool, 1, 0, r) \in 1..Len(pool)

\* the largest value of r was drawn over a pool of several entries, and the
\* loop returned the last of them
C27_Witness ==
    /\ draw.at = "done" /\ draw.returned = "winner" /\ ~draw.fallback
    /\ LET pool == draw_pool(draw.users, draw.code_rows)
       IN  /\ Len(pool) >= 2
           /\ draw.r = sum_weights(pool) * RGrid
           /\ walk(pool, 1, 0, draw.r) = Len(pool)
           /\ draw.winner.user_id = pool[Len(pool)].user_id


(***************************************************************************)
(* SpecPoolWait: the calls that ask the pool for a connection while they   *)
(* hold one.  The pool hands out at most max_size connections; the model   *)
(* scales the size (8 in bot.py, 10 in db.py) down to max_size and the     *)
(* number of calls in progress to NumTasks.  A call that asks waits until  *)
(* a connection is free; the pool of bot.py gives the wait up after its    *)
(* timeout (30 s) with PoolTimeout, the pool of db.py waits without limit. *)
(* The statements between two acquisitions are taken as one step.          *)
(***************************************************************************)
max_size == 2

\* the positions at which a call waits for a connection, and what it holds
WaitingFirst == {"init_db", "conn", "con"}
WaitingFurther == {"conn2", "ensure_user"}
Holding == {"INIT_SQL", "select_users", "conn2", "select_codes",
            "ensure_user", "ensure_user_body", "register_entry_body"}
held(at) == IF at \in {"select_codes", "ensure_user_body"} THEN 2
            ELSE IF at \in Holding THEN 1 ELSE 0

\* where a call goes on once it has got the connection it waited for
acquired(at) ==
    CASE at = "init_db" -> "INIT_SQL"
      [] at = "conn" -> "select_users"
      [] at = "conn2" -> "select_codes"
      [] at = "con" -> "ensure_user"
      [] at = "ensure_user" -> "ensure_user_body"

PoolCall(op, at) ==
    [at |-> at, op |-> op, user_id |-> 0, profile |-> NoProfile, code |-> NoCode,
     participant_code |-> NoCode, users |-> << >>, started |-> Len(done)]

PoolCallEnded(run, outcome, returned) ==
    [op |-> run.op, user_id |-> run.user_id, started |-> run.started,
     outcome |-> outcome, returned |-> returned]

\* bot.py: draw_weighted_winner is called and awaits init_db()
pool_draw_weighted_winner(t, runs) ==
    /\ POOL.module = "bot.py"
    /\ task[t].at = "idle"
    /\ \A s \in Tasks : s < t => task[s].at # "idle"
    /\ Len(done) + Cardinality(InProgress) < runs
    /\ task' = [task EXCEPT ![t] = PoolCall("draw_weighted_winner", "init_db")]
    /\ UNCHANGED <<users, user_prefs, entries, entries_id_seq, done, POOL>>

\* db.py: register_entry is called and asks for its connection
db_register_entry(t, runs, codes, profiles) ==
    /\ POOL.module = "db.py"
    /\ task[t].at = "idle"
    /\ \A s \in Tasks : s < t => task[s].at # "idle"
    /\ Len(done) + Cardinality(InProgress) < runs
    /\ \E uid \in UserIds, code \in codes, profile \in profiles :
         task' = [task EXCEPT ![t] =
                    [PoolCall("register_entry", "con") EXCEPT
                        !.user_id = uid, !.code = code, !.profile = profile]]
    /\ UNCHANGED <<users, user_prefs, entries, entries_id_seq, done, POOL>>

\* POOL.connection() / _pool.acquire(): a waiting call gets a free connection
connection(t) ==
    /\ task[t].at \in WaitingFirst \cup WaitingFurther
    /\ POOL.in_use < max_size
    /\ POOL' = [POOL EXCEPT !.in_use = @ + 1]
    /\ task' = [task EXCEPT ![t].at = acquired(task[t].at)]
    /\ UNCHANGED <<users, user_prefs, entries, entries_id_seq, done>>

\* bot.py: no connection came free within the timeout: the wait raises, the
\* connection the call holds goes back to the pool, the call ends
PoolTimeout(t) ==
    /\ POOL.module = "bot.py"
    /\ task[t].at \in WaitingFirst \cup WaitingFurther
    /\ POOL.in_use = max_size
    /\ POOL' = [POOL EXCEPT !.in_use = @ - held(task[t].at)]
    /\ done' = Append(done, PoolCallEnded(task[t], "PoolTimeout", 0))
    /\ task' = [task EXCEPT ![t] = IdleTask]
    /\ UNCHANGED <<users, user_prefs, entries, entries_id_seq>>

\* init_db: INIT_SQL runs on its connection (the tables exist), which then
\* goes back; draw_weighted_winner asks for conn
pool_init_sql(t) ==
    /\ task[t].at = "INIT_SQL"
    /\ POOL' = [POOL EXCEPT !.in_use = @ - 1]
    /\ task' = [task EXCEPT ![t].at = "conn"]
    /\ UNCHANGED <<users, user_prefs, entries, entries_id_seq, done>>

\* the first query on conn; then the call asks for conn2 and keeps conn
pool_select_users(t) ==
    /\ task[t].at = "select_users"
    /\ \E rows \in Orderings(select_users_codes_count(users, entries)) :
         task' = [task EXCEPT ![t].at = "conn2", ![t].users = rows]
    /\ UNCHANGED <<users, user_prefs, entries, entries_id_seq, done, POOL>>

\* the second query on conn2; both connections go back, and the rest of the
\* function awaits nothing: it returns None or an entry of the pool
pool_select_codes(t) ==
    /\ task[t].at = "select_codes"
    /\ POOL' = [POOL EXCEPT !.in_use = @ - 2]
    /\ LET pool == draw_pool(task[t].users, select_user_id_code(entries))
       IN  IF task[t].users = << >> \/ pool = << >>
           THEN done' = Append(done, PoolCallEnded(task[t], "None", 0))
           ELSE \E r \in uniform(sum_weights(pool)) :
                  LET i == walk(pool, 1, 0, r)
                  IN  \E choice \in (IF i > 0 THEN {i} ELSE 1..Len(pool)) :
                        done' = Append(done, PoolCallEnded(task[t], "winner",
                                                           pool[choice].user_id))
    /\ task' = [task EXCEPT ![t] = IdleTask]
    /\ UNCHANGED <<users, user_prefs, entries, entries_id_seq>>

\* db.py ensure_user on its own connection, which goes back on return
db_ensure_user(t) ==
    /\ task[t].at = "ensure_user_body"
    /\ POOL' = [POOL EXCEPT !.in_use = @ - 1]
    /\ LET uid == task[t].user_id
       IN  IF uid \in DOMAIN users
           THEN /\ users' = [users EXCEPT ![uid] = update_users(users[uid],
                                                               task[t].profile)]
                /\ task' = [task EXCEPT
                              ![t].at = "register_entry_body",
                              ![t].participant_code = users[uid].participant_code]
                /\ UNCHANGED user_prefs
           ELSE \E pc \in make_participant_code :
                  /\ select_participant_code(users, pc) = {}
                  /\ users' = [u \in DOMAIN users \cup {uid} |->
                                 IF u = uid
                                 THEN [username |-> or_empty(task[t].profile.username),
                                       first_name |-> or_empty(task[t].profile.first_name),
                                       participant_code |-> pc]
                                 ELSE users[u]]
                  /\ user_prefs' =
                        IF uid \in DOMAIN user_prefs THEN user_prefs
                        ELSE [u \in DOMAIN user_prefs \cup {uid} |->
                                IF u = uid THEN default_prefs ELSE user_prefs[u]]
                  /\ task' = [task EXCEPT ![t].at = "register_entry_body",
                                          ![t].participant_code = pc]
    /\ UNCHANGED <<entries, entries_id_seq, done>>

\* db.py register_entry after ensure_user, on the connection it has held
\* since its start, which goes back on return
db_register_entry_body(t) ==
    /\ task[t].at = "register_entry_body"
    /\ POOL' = [POOL EXCEPT !.in_use = @ - 1]
    /\ LET uid == task[t].user_id
           code == task[t].code
           found == select_entry_number(entries, uid, code)
           number == new_number(select_max_entry_number(entries))
       IN  IF found # {}
           THEN /\ \E n \in found :
                     done' = Append(done, PoolCallEnded(task[t], "ok", <<n, FALSE>>))
                /\ UNCHANGED <<entries, entries_id_seq>>
           ELSE /\ entries_id_seq' = entries_id_seq + 1
                /\ entries' = Append(entries,
                                [id |-> entries_id_seq + 1, user_id |-> uid,
                                 code |-> code, entry_number |-> number])
                /\ done' = Append(done, PoolCallEnded(task[t], "ok", <<number, TRUE>>))
    /\ task' = [task EXCEPT ![t] = IdleTask]
    /\ UNCHANGED <<users, user_prefs>>

InitPoolWait ==
    \E module \in Modules :
        /\ users = [u \in {1} |-> [username |-> "", first_name |-> "Ann",
                                   participant_code |-> stored_code(u)]]
        /\ user_prefs = [u \in {1} |-> default_prefs]
        /\ entries = <<[id |-> 1, user_id |-> 1, code |-> headshotking_lc,
                        entry_number |-> 1]>>
        /\ entries_id_seq = 1
        /\ task = [t \in Tasks |-> IdleTask]
        /\ done = << >>
        /\ draw = IdleDraw
        /\ fsm = NoDialogue
        /\ POOL = [StartedPool EXCEPT !.module = module]

NextPoolWait ==
    /\ \E t \in Tasks :
          \/ pool_draw_weighted_winner(t, MaxRuns)
          \/ db_register_entry(t, MaxRuns, {headshotking_lc, moovictory_lc},
                               SeqProfiles)
          \/ connection(t)
          \/ PoolTimeout(t)
          \/ pool_init_sql(t)
          \/ pool_select_users(t)
          \/ pool_select_codes(t)
          \/ db_ensure_user(t)
          \/ db_register_entry_body(t)
    /\ UNCHANGED <<draw, fsm>>

SpecPoolWait == InitPoolWait /\ [][NextPoolWait]_vars

\* C29: in no reachable state is every connection of the pool held by a
\* call that is itself waiting for a further connection of the same pool.
C29_NoPoolHeldByWaiters ==
    ~ /\ POOL.in_use = max_size
      /\ \A t \in Tasks : task[t].at \in Holding => task[t].at \in WaitingFurther


(***************************************************************************)
(* SpecCodes: messages and button presses with every configured code, in   *)
(* upper, mixed and lower case, and with words that are no code, handled   *)
(* one after another.  Callback data is whatever a client sends after      *)
(* "subchk:", which need not be what a button of the bot carried.          *)
(***************************************************************************)
clutchgod_lc == lower(CLUTCHGOD)
CodeTexts == {HEADSHOTKING, moovictory_lc, CLUTCHGOD, HeadShotKing, NOPE}
SentCallbackCodes == {headshotking_lc, clutchgod_lc, HEADSHOTKING, NOPE}

NextCodes ==
    /\ \/ handle_code(1, MaxRuns, CodeTexts, SeqProfiles, {"member", "left"})
       \/ cb_check_sub(1, MaxRuns, SentCallbackCodes, SeqProfiles, {"member", "left"})
       \/ eu_update(1)
       \/ eu_generate(1)
       \/ eu_insert(1)
       \/ eu_prefs(1)
       \/ re_select(1)
       \/ re_max(1)
       \/ re_insert(1)
    /\ UNCHANGED <<draw, fsm, POOL>>

\* participant 1 has registered two of the three codes before
InitCodes ==
    /\ users = [u \in {1} |-> [username |-> "", first_name |-> "Ann",
                               participant_code |-> stored_code(u)]]
    /\ user_prefs = [u \in {1} |-> default_prefs]
    /\ entries = <<[id |-> 1, user_id |-> 1, code |-> headshotking_lc,
                    entry_number |-> 1],
                   [id |-> 2, user_id |-> 1, code |-> moovictory_lc,
                    entry_number |-> 2]>>
    /\ entries_id_seq = 2
    /\ task = [t \in Tasks |-> IdleTask]
    /\ done = << >>
    /\ draw = IdleDraw
    /\ fsm = NoDialogue
    /\ POOL = StartedPool

SpecCodes == InitCodes /\ [][NextCodes]_vars

\* C30: every Entry's code is the lower-cased form of one of the configured
\* valid codes and is itself in lower case; hence the lottery weight of
\* every participant is at most the number of configured codes.
C30_CodesValidWeightCapped ==
    /\ \A k \in 1..Len(entries) :
          /\ \E i \in 1..Len(VALID_CODES) : entries[k].code = lower(VALID_CODES[i])
          /\ lower(entries[k].code) = entries[k].code
    /\ \A u \in DOMAIN users : codes_count(entries, u) <= Len(VALID_CODES)

\* participant 1 got the third code by a button press (weight 3), sent a
\* configured code once more, which added nothing, and a word that is no
\* code was refused
C30_Witness ==
    /\ codes_count(entries, 1) = Len(VALID_CODES)
    /\ \E i, j, k \in 1..Len(done) :
          /\ i < j
          /\ done[i].user_id = 1 /\ done[i].text = clutchgod_lc
          /\ done[i].outcome = "ok" /\ done[i].is_new
          /\ done[j].user_id = 1 /\ done[j].text = HeadShotKing
          /\ done[j].outcome = "ok" /\ ~done[j].is_new
          /\ done[k].text = NOPE /\ done[k].outcome = "invalid"

(***************************************************************************)
(* SpecReject: messages and button presses that are refused (no text,      *)
(* blank text, a command, a word that is no code, a sender who is not      *)
(* admitted) next to those that are accepted, handled one after another    *)
(* over a store in which participant 1 has registered one code under an    *)
(* earlier handle.                                                         *)
(***************************************************************************)
slash_draw == <<"/","d","r","a","w">>
RejectTexts == {HEADSHOTKING, NOPE, << >>, <<" ">>, slash_draw}

NextReject ==
    /\ \/ handle_code(1, MaxRuns, RejectTexts, SeqProfiles, MemberAnswers)
       \/ cb_check_sub(1, MaxRuns, CallbackCodes, SeqProfiles, MemberAnswers)
       \/ eu_update(1)
       \/ eu_generate(1)
       \/ eu_insert(1)
       \/ eu_prefs(1)
       \/ re_select(1)
       \/ re_max(1)
       \/ re_insert(1)
    /\ UNCHANGED <<draw, fsm, POOL>>

SpecReject == InitLedger /\ [][NextReject]_vars

\* the run that a step belongs to: the one in progress before or after it
RunOfStep == IF task[1].at # "idle" THEN task[1] ELSE task'[1]

\* C31: a step that ends a run as ignored (no text, a command) or invalid
\* changes nothing in the store; every step of a run of a sender who is not
\* admitted leaves the entries, their sequence and every weight as they
\* were, and writes at most the sender's Participant (its participant code
\* kept) and the sender's Preference record when there was none (then with
\* the defaults).
C31_RejectedLeavesLedger ==
    [][/\ (Len(done') > Len(done)
             /\ done'[Len(done')].outcome \in {"ignored", "invalid"})
          => UNCHANGED <<users, user_prefs, entries, entries_id_seq>>
       /\ ((task[1].at # "idle" \/ task'[1].at # "idle") /\ ~RunOfStep.subscribed)
          => /\ UNCHANGED <<entries, entries_id_seq>>
             /\ \A u \in DOMAIN users : codes_count(entries', u) = codes_count(entries, u)
             /\ DOMAIN users' \subseteq DOMAIN users \cup {RunOfStep.user_id}
             /\ \A u \in DOMAIN users :
                   /\ u \in DOMAIN users'
                   /\ users'[u].participant_code = users[u].participant_code
                   /\ u # RunOfStep.user_id => users'[u] = users[u]
             /\ DOMAIN user_prefs' \subseteq DOMAIN user_prefs \cup {RunOfStep.user_id}
             /\ \A u \in DOMAIN user_prefs' :
                   user_prefs'[u] = IF u \in DOMAIN user_prefs THEN user_prefs[u]
                                    ELSE default_prefs
       /\ (Len(done') > Len(done) /\ done'[Len(done')].outcome = "unsubscribed")
          => UNCHANGED <<entries, entries_id_seq>>
      ]_vars

\* three runs were refused: a command, a word that is no code, and a valid
\* code of participant 1, who is not admitted; the last rewrote the handle
\* of participant 1, and the ledger holds the one Entry of the start
C31_Witness ==
    /\ Len(done) = 3
    /\ \E i, j, k \in 1..3 :
          /\ done[i].outcome = "ignored" /\ done[i].text = slash_draw
          /\ done[j].outcome = "invalid" /\ done[j].text = NOPE
          /\ done[k].outcome = "unsubscribed" /\ done[k].text = HEADSHOTKING
          /\ done[k].user_id = 1
    /\ users[1].username = "ann"
    /\ entries = <<[id |-> 1, user_id |-> 1, code |-> headshotking_lc,
                    entry_number |-> 1]>>
    /\ codes_count(entries, 1) = 1


(***************************************************************************)
(* SpecAdmin: updates of any sender, operator or not, that name the        *)
(* operator's commands and buttons.  The dispatcher takes an update        *)
(* (feed_update) and the handler that its filter selects runs.  The        *)
(* dialogue state is kept per sender; a message with text reaches          *)
(* broadcast_collect_text only from a sender whose state is                *)
(* BroadcastState.text.  The task of a confirmed broadcast runs in slot 2. *)
(* One draw in a behaviour.                                                *)
(***************************************************************************)
ADMIN_IDS == {admin_chat_id}
\* (mutant) every sender passes as an operator
is_admin_anyone(user_id) == TRUE

\* is_admin: user_id in set(config.ADMIN_IDS)
is_admin(user_id) == user_id \in ADMIN_IDS

Senders == ADMIN_IDS \cup {1}
Updates == {"/export", "admin:export", "/draw", "admin:draw", "admin:broadcast",
            "text", "/cancel", "broadcast:cancel", "broadcast:confirm"}

\* dp.feed_update: an update of a sender is taken up
feed_update(t, runs) ==
    /\ task[t].at = "idle"
    /\ Cardinality({i \in 1..Len(done) : done[i].op # "_send_broadcast"}) < runs
    /\ \E by \in Senders, data \in Updates :
         /\ data = "text" => fsm[by].state = BroadcastState_text
         /\ task' = [task EXCEPT ![t] = [at |-> "update", by |-> by, data |-> data,
                                         started |-> Len(done)]]
    /\ UNCHANGED <<users, user_prefs, entries, entries_id_seq, done, draw, fsm>>

\* the handler has returned
Handled(t, outcome, returned) ==
    /\ done' = Append(done, [op |-> task[t].data, by |-> task[t].by,
                             outcome |-> outcome, returned |-> returned])
    /\ task' = [task EXCEPT ![t] = IdleTask]

\* cmd_export and cb_admin_export: the gate, then export_csv and the file
cmd_export(t) ==
    /\ task[t].at = "update" /\ task[t].data \in {"/export", "admin:export"}
    /\ IF ~is_admin(task[t].by)
       THEN Handled(t, "refused", << >>)
       ELSE Handled(t, "export_csv",
                    [i \in 1..Len(entries) |->
                        <<entries[i].user_id, entries[i].code,
                          entries[i].entry_number>>])
    /\ UNCHANGED <<users, user_prefs, entries, entries_id_seq, draw, fsm>>

\* cmd_draw and cb_admin_draw: the gate, then draw_weighted_winner, whose
\* first query is part of this step; its other steps follow
cb_admin_draw(t) ==
    /\ task[t].at = "update" /\ task[t].data \in {"/draw", "admin:draw"}
    /\ IF ~is_admin(task[t].by)
       THEN Handled(t, "refused", << >>) /\ UNCHANGED draw
       ELSE /\ draw.at = "idle"
            /\ \E rows \in Orderings(select_users_codes_count(users, entries)) :
                 draw' = [draw EXCEPT !.at = "select_codes", !.users = rows]
            /\ Handled(t, "draw_weighted_winner", << >>)
    /\ UNCHANGED <<users, user_prefs, entries, entries_id_seq, fsm>>

\* cb_admin_broadcast, broadcast_collect_text: the gate, then the dialogue
\* of the sender moves on
dialogue_handler(t) ==
    /\ task[t].at = "update" /\ task[t].data \in {"admin:broadcast", "text"}
    /\ LET by == task[t].by
       IN  IF ~is_admin(by)
           THEN Handled(t, "refused", << >>) /\ UNCHANGED fsm
           ELSE /\ IF task[t].data = "admin:broadcast"
                   THEN \E btype \in Kinds :
                          fsm' = [fsm EXCEPT ![by].state = BroadcastState_text,
                                             ![by].data.btype = btype]
                   ELSE \E text \in BroadcastTexts :
                          fsm' = [fsm EXCEPT ![by].data.text = text,
                                             ![by].preview = TRUE]
                /\ Handled(t, "ok", << >>)
    /\ UNCHANGED <<users, user_prefs, entries, entries_id_seq, draw>>

\* cmd_cancel, cb_broadcast_cancel: no gate; state.clear() of the sender
cancel_handler(t) ==
    /\ task[t].at = "update" /\ task[t].data \in {"/cancel", "broadcast:cancel"}
    /\ fsm' = [fsm EXCEPT ![task[t].by] = clear(@)]
    /\ Handled(t, "ok", << >>)
    /\ UNCHANGED <<users, user_prefs, entries, entries_id_seq, draw>>

\* cb_broadcast_confirm: the gate, then the data of the sender's dialogue
\* with its defaults, state.clear() and create_task(_send_broadcast(...))
confirm_handler(t, b) ==
    /\ task[t].at = "update" /\ task[t].data = "broadcast:confirm"
    /\ LET by == task[t].by
       IN  IF ~is_admin(by)
           THEN /\ done' = Append(done, [op |-> task[t].data, by |-> by,
                                         outcome |-> "refused", returned |-> << >>])
                /\ task' = [task EXCEPT ![t] = IdleTask]
                /\ UNCHANGED fsm
           ELSE /\ task[b].at = "idle"
                /\ done' = Append(done, [op |-> task[t].data, by |-> by,
                                         outcome |-> "create_task",
                                         returned |-> << >>])
                /\ task' = [task EXCEPT
                              ![t] = IdleTask,
                              ![b] = [at |-> "bc_list",
                                      btype |-> data_get(fsm[by].data, "btype", "video"),
                                      text |-> data_get(fsm[by].data, "text", ""),
                                      subs |-> << >>, i |-> 1, sent |-> 0,
                                      failed |-> 0, calls |-> << >>,
                                      started |-> Len(done)]]
                /\ fsm' = [fsm EXCEPT ![by] = clear(@)]
    /\ UNCHANGED <<users, user_prefs, entries, entries_id_seq, draw>>

InitAdmin ==
    /\ users = [u \in {1} |-> [username |-> "", first_name |-> "Ann",
                               participant_code |-> stored_code(u)]]
    /\ user_prefs = [u \in {1} |-> [default_prefs EXCEPT !.notify_streams = FALSE]]
    /\ entries = <<[id |-> 1, user_id |-> 1, code |-> headshotking_lc,
                    entry_number |-> 1]>>
    /\ entries_id_seq = 1
    /\ task = [t \in Tasks |-> IdleTask]
    /\ done = << >>
    /\ draw = IdleDraw
    /\ fsm = [s \in Senders |-> NoDialogue]
    /\ POOL = StartedPool

NextAdmin ==
    /\ \/ feed_update(1, MaxRuns)
       \/ cmd_export(1)
       \/ cb_admin_draw(1)
       \/ dialogue_handler(1)
       \/ cancel_handler(1)
       \/ confirm_handler(1, 2)
       \/ /\ \/ draw_select_codes
             \/ draw_walk
          /\ UNCHANGED fsm
       \/ /\ \/ bc_list(2)
             \/ bc_no_recipients(2)
             \/ bc_send(2)
             \/ bc_report(2)
          /\ UNCHANGED <<users, user_prefs, entries, entries_id_seq, draw, fsm>>
    /\ UNCHANGED POOL

SpecAdmin == InitAdmin /\ [][NextAdmin]_vars

\* a step in which a draw begins, an export is produced or the task of a
\* broadcast is created
OperatorActionStarts ==
    \/ draw.at = "idle" /\ draw'.at # "idle"
    \/ Len(done') > Len(done) /\ done'[Len(done')].outcome = "export_csv"
    \/ \E t \in Tasks : task[t].at = "idle" /\ task'[t].at = "bc_list"

\* C32: a draw, an export and a broadcast are started only by a handler
\* that runs for an update of a sender in ADMIN_IDS; whatever the senders
\* outside ADMIN_IDS send, every one of their updates is refused and no
\* dialogue of theirs leaves its initial state.
C32_OperatorActionsAdminOnly ==
    [][/\ OperatorActionStarts =>
             (task[1].at = "update" /\ task[1].by \in ADMIN_IDS)
       /\ \A s \in Senders \ ADMIN_IDS : fsm'[s] = NoDialogue
       /\ (Len(done') > Len(done) /\ done'[Len(done')].op \in Updates
             /\ done'[Len(done')].by \notin ADMIN_IDS)
          => done'[Len(done')].outcome \in {"refused", "ok"}
      ]_vars

\* a sender outside ADMIN_IDS was refused a draw and a confirmation, then
\* the operator's export was produced
C32_Witness ==
    /\ Len(done) = 3
    /\ done[1].op = "/draw" /\ done[1].by = 1 /\ done[1].outcome = "refused"
    /\ done[2].op = "broadcast:confirm" /\ done[2].by = 1
    /\ done[2].outcome = "refused"
    /\ done[3].op = "admin:export" /\ done[3].by = admin_chat_id
    /\ done[3].outcome = "export_csv" /\ Len(done[3].returned) = 1
    /\ draw.at = "idle"


\* the number of toggle_pref calls on flag f of participant u whose update
\* has been run: the calls that have returned and those that are at their
\* closing get_prefs
Toggled(u, f) ==
    Cardinality({i \in 1..Len(done) :
                    /\ done[i].op = "toggle_pref" /\ done[i].outcome = "ok"
                    /\ done[i].user_id = u /\ done[i].field = f})
    + Cardinality({t \in Tasks :
                    /\ task[t].at \in {"gp_select", "gp_insert"}
                    /\ task[t].op = "toggle_pref"
                    /\ task[t].user_id = u /\ task[t].field = f})

\* C33: whatever the interleaving of the calls, every stored flag is its
\* original value (true, the default every record starts with) negated once
\* per toggle_pref call on that flag of that participant: no toggle is
\* lost, two toggles restore the value, and a flag no call names keeps it.
C33_NoToggleLost ==
    \A u \in DOMAIN user_prefs :
        \A f \in {"notify_results", "notify_new_video", "notify_streams"} :
            user_prefs[u][f] = (Toggled(u, f) % 2 = 0)

\* two calls on the same flag of the same participant ran at the same time
\* (the second to return had started before the first returned) and both
\* have returned; the flag has its original value again, the others too
C33_Witness ==
    /\ InProgress = {}
    /\ \E i, j \in 1..Len(done) :
          /\ i < j /\ done[j].started < i
          /\ done[i].op = "toggle_pref" /\ done[j].op = "toggle_pref"
          /\ done[i].outcome = "ok" /\ done[j].outcome = "ok"
          /\ done[i].user_id = done[j].user_id
          /\ done[i].field = "notify_streams" /\ done[j].field = "notify_streams"
          /\ Toggled(done[i].user_id, "notify_streams") = 2
          /\ user_prefs[done[i].user_id] = default_prefs

=============================================================================
